---- MODULE Spec2Model ----
(***************************************************************************)
(* Model of the analytics core of the investment dashboard:                *)
(*   - src/src/lib/analytics.ts  (metrics, indicators, strategy simulator, *)
(*     snapshot assembler)                                                 *)
(*   - src/unnamed/part_000      (sentiment table, synthetic series        *)
(*     generator, market series)                                           *)
(*                                                                         *)
(* Numbers.  Prices and money are integers in ticks of 1/10000 dollar, so   *)
(* that rounding to two decimals (toFixed(2)) is a real operation; a       *)
(* product of money by a price ratio is truncated to a tick, where the     *)
(* source rounds to a double.  Ratios (returns, drawdown, RSI, means) are  *)
(* exact fractions <<num, den>> in lowest terms with den > 0.  A           *)
(* JavaScript number that may be NaN is a record [nan, num, den].          *)
(* Indexes are 0-based as in the source; At(s, i) reads element i.         *)
(***************************************************************************)
EXTENDS Integers, Sequences, FiniteSets, TLC

VARIABLES
    \* ---- runStrategySimulation (analytics.ts 189-329) ----
    candles,             \* the candle slice passed in
    cfgId,               \* config.id
    capital,             \* starting capital, in dollars
    pc,                  \* position of the call: "call", "loop", "stats", "done"
    i,                   \* loop index of the bar loop
    positionEntryIndex,  \* NoPosition (null) or the entry bar
    positionEntryPrice,  \* entry price in ticks, 0 when flat
    equity,              \* ticks
    trades,              \* the trade log
    equityCurve,         \* ticks, one value per bar
    sma10, sma40, rsi,   \* indicator arrays computed before the loop
    result,              \* the StrategyEvaluation returned
    entriesTaken,        \* history: number of entries taken by the bar loop
    openAtLoopEnd,       \* history: the bar loop ended with a position open
    \* ---- generateHistoricalSeries called twice (part_000 212-253) ----
    now,                 \* the current instant, hours since 1970-01-01T00:00Z
    zone,                \* the time zone of the process, hours ahead of UTC
    genCfg,              \* index into SeriesConfig of the symbol generated
    genDays,             \* the `days` argument
    generated,           \* the series returned by the calls made so far
    \* ---- the loop body of generateHistoricalSeries on arbitrary draws ----
    ohlcCfg,             \* index into SeriesConfig
    previousClose,       \* ticks, unrounded
    pushed,              \* the candle pushed last
    pushCount,           \* number of candles pushed
    \* ---- pure metric functions (analytics.ts 73-156) ----
    metricInput,         \* the argument
    metricResult,        \* the value returned
    \* ---- the data modules and getAdvisorSnapshot / listSymbols ----
    marketSeries,        \* part_000 255-263, built once when the module loads
    newsSentiment,       \* part_000 20-120
    request,             \* the arguments of the last getAdvisorSnapshot call
    snapshot,            \* the value it returned
    symbolList,          \* the value listSymbols returned last
    loaded,              \* history: the two tables as built when the modules loaded
    \* ---- calculateValueAtRisk (analytics.ts 99-104) ----
    riskReturns,         \* the caller's list of returns, in 1/10000
    riskPassed,          \* history: that list as it was when passed
    riskConfidence,      \* the confidence, in hundredths
    riskResult,          \* the value returned
    \* ---- getAdvisorSnapshot from the slice on (analytics.ts 338-398) ----
    advPc,               \* position of the call: "idle", "run", "done"
    advItems,            \* sentimentItems, the items of the symbol
    advRun,              \* index into strategies of the simulation running
    evaluations,         \* strategyEvaluations gathered so far
    advice               \* label, metrics' signs and the recommendations returned

simVars == <<candles, cfgId, capital, pc, i, positionEntryIndex,
             positionEntryPrice, equity, trades, equityCurve, sma10, sma40,
             rsi, result, entriesTaken, openAtLoopEnd>>

genVars == <<now, zone, genCfg, genDays, generated>>

ohlcVars == <<ohlcCfg, previousClose, pushed, pushCount>>

metricVars == <<metricInput, metricResult>>

snapVars == <<marketSeries, newsSentiment, request, snapshot, symbolList, loaded>>

riskVars == <<riskReturns, riskPassed, riskConfidence, riskResult>>

adviseVars == <<advPc, advItems, advRun, evaluations, advice>>

vars == <<simVars, genVars, ohlcVars, metricVars, snapVars, riskVars, adviseVars>>

-----------------------------------------------------------------------------
(* Arithmetic helpers *)

Tick == 100 * 100          \* ticks per dollar
CentTicks == 10 * 10       \* ticks per cent

Abs(x) == IF x < 0 THEN -x ELSE x
Max(a, b) == IF a >= b THEN a ELSE b
Min(a, b) == IF a <= b THEN a ELSE b

RECURSIVE Gcd(_, _)
Gcd(a, b) == IF b = 0 THEN a ELSE Gcd(b, a % b)

\* 0-based array read
At(s, k) == s[k + 1]

\* A fraction in lowest terms with a positive denominator.
Frac(n, d) ==
    LET g == Gcd(Abs(n), Abs(d))
        s == IF d < 0 THEN -1 ELSE 1
    IN  IF n = 0 THEN <<0, 1>> ELSE <<s * (n \div g), s * (d \div g)>>

\* Exact comparison of two fractions with positive denominators, by the
\* continued-fraction expansion (no products, so no overflow).
RECURSIVE FracLess(_, _)
FracLess(x, y) ==
    LET qx == x[1] \div x[2]
        qy == y[1] \div y[2]
        rx == x[1] % x[2]
        ry == y[1] % y[2]
    IN  IF qx # qy THEN qx < qy
        ELSE IF ry = 0 THEN FALSE
        ELSE IF rx = 0 THEN TRUE
        ELSE FracLess(<<y[2], ry>>, <<x[2], rx>>)

FracMax(x, y) == IF FracLess(x, y) THEN y ELSE x

FracMul(x, y) ==
    LET g1 == Gcd(Abs(x[1]), y[2])
        g2 == Gcd(Abs(y[1]), x[2])
    IN  IF x[1] = 0 \/ y[1] = 0 THEN <<0, 1>>
        ELSE <<(x[1] \div g1) * (y[1] \div g2), (x[2] \div g2) * (y[2] \div g1)>>

\* A JavaScript number: NaN, or the fraction num/den.
Num(f) == [nan |-> FALSE, num |-> f[1], den |-> f[2]]
NaN == [nan |-> TRUE, num |-> 0, den |-> 1]
Zero == Num(<<0, 1>>)

\* floor(a * 10^digits / d) and the remainder, for a >= 0 and d > 0, by long
\* division (one decimal digit at a time, so that no product overflows).
RECURSIVE ScaledDiv(_, _, _)
ScaledDiv(a, d, digits) ==
    IF digits = 0 THEN <<a \div d, a % d>>
    ELSE LET p == ScaledDiv(a, d, digits - 1)
         IN  <<p[1] * 10 + (p[2] * 10) \div d, (p[2] * 10) % d>>

\* Number(x.toFixed(digits)) of the fraction f, as the integer count of
\* 10^-digits units: the nearest one, a tie going to the larger magnitude.
ToFixedUnits(f, digits) ==
    LET p == ScaledDiv(Abs(f[1]), f[2], digits)
        m == IF 2 * p[2] >= f[2] THEN p[1] + 1 ELSE p[1]
    IN  IF f[1] < 0 THEN -m ELSE m

\* Number(x.toFixed(2)) as a JavaScript number; NaN stays NaN.
ToFixed2Num(x) ==
    IF x.nan THEN NaN ELSE Num(Frac(ToFixedUnits(<<x.num, x.den>>, 2), 100))

\* Number(price.toFixed(2)) of a price in ticks, in ticks.
ToFixed2(p) == ToFixedUnits(Frac(p, Tick), 2) * CentTicks

\* floor(m * r) for money m >= 0 and a ratio r >= 0, without overflow
MulRatio(m, r) == (m \div r[2]) * r[1] + ((m % r[2]) * r[1]) \div r[2]

RECURSIVE SumSeq(_)
SumSeq(s) == IF s = <<>> THEN 0 ELSE Head(s) + SumSeq(Tail(s))

-----------------------------------------------------------------------------
(* Program constants of analytics.ts *)

TRADING_DAYS == 252
MinCandles == 30          \* "candles.length < 30"
SmaFast == 10
SmaSlow == 40
RsiPeriod == 14
BreakoutPeriod == 20
RsiEntry == 40
RsiExit == 55
NoPosition == -1          \* positionEntryIndex === null
NegInfinity == -1         \* below every price: the -Infinity of highestHigh
DefaultLookback == 180
DefaultCapital == 25000
VolatilityLimit == 35     \* "annualVolatility > 0.35", in hundredths

StrategyIds == <<"momentum", "meanReversion", "breakout">>

InsufficientText == "Insufficient data to evaluate strategy."
OutperformText == "Outperformed buy-and-hold over the period with attractive risk-adjusted returns."
ModerateText == "Moderately profitable, best paired with tight risk controls and diversification."
UnderperformText == "Underperformed benchmark, deploy cautiously or wait for stronger signal confirmation."

-----------------------------------------------------------------------------
(* Metrics and indicators *)

\* mean: 0 for an empty list, else sum / length
Mean(values) ==
    IF Len(values) = 0 THEN <<0, 1>> ELSE Frac(SumSeq(values), Len(values))

\* calculateMaxDrawdown on the closes (ticks, >= 0) of the candles passed.
\* The forEach, from element k on (1-based), with the running peak and maximum:
\* (peak - close) / peak is 0/0 = NaN when the peak is 0, and Math.max returns
\* NaN when either argument is NaN.
NextPeakStale(peak, close) == peak

NextPeak(peak, close) == IF close > peak THEN close ELSE peak

Drawdown(peak, close) == IF peak = 0 THEN NaN ELSE Num(Frac(peak - close, peak))

MaxNum(x, y) ==
    IF x.nan \/ y.nan THEN NaN
    ELSE IF FracLess(<<x.num, x.den>>, <<y.num, y.den>>) THEN y ELSE x

RECURSIVE DrawdownLoop(_, _, _, _)
DrawdownLoop(closes, k, peak, maxDrawdown) ==
    IF k > Len(closes) THEN maxDrawdown
    ELSE LET p == NextPeak(peak, closes[k])
             m == MaxNum(maxDrawdown, Drawdown(p, closes[k]))
         IN  IF m.nan THEN DrawdownLoop(closes, k + 1, p, NaN)
             ELSE DrawdownLoop(closes, k + 1, p, m)

CalculateMaxDrawdown(closes) ==
    IF Len(closes) = 0 THEN Zero
    ELSE DrawdownLoop(closes, 1, closes[1], Zero)

\* [...returns].sort((a, b) => a - b): an ascending copy
RECURSIVE InsertSorted(_, _)
InsertSorted(sorted, x) ==
    IF sorted = <<>> THEN <<x>>
    ELSE IF x < Head(sorted) THEN <<x>> \o sorted
    ELSE <<Head(sorted)>> \o InsertSorted(Tail(sorted), x)

RECURSIVE SortAscending(_)
SortAscending(values) ==
    IF values = <<>> THEN <<>>
    ELSE InsertSorted(SortAscending(SubSeq(values, 1, Len(values) - 1)),
                      values[Len(values)])

\* Math.floor((1 - confidence) * sorted.length), the confidence in hundredths.
\* For the confidences used (0.5, 0.75 and 1, where 1 - confidence is exact,
\* and the default 0.95, where 1 - confidence is a double slightly above
\* 0.05) the floor of the double product is the floor of the exact one.
ValueAtRiskIndexCeil(n, confidence) == ((100 - confidence) * n + 99) \div 100

ValueAtRiskIndex(n, confidence) == ((100 - confidence) * n) \div 100

\* the caller's list after the call: the sort works on a copy
ReturnsAfterValueAtRisk(returns) == returns

\* calculateValueAtRisk(returns, confidence)
CalculateValueAtRisk(returns, confidence) ==
    IF Len(returns) = 0 THEN 0
    ELSE LET sorted == SortAscending(returns)
             index == ValueAtRiskIndex(Len(sorted), confidence)
         IN  IF index < Len(sorted) THEN Abs(At(sorted, index)) ELSE 0

CalculateSMALate(values, period) ==
    [k \in 1..Len(values) |->
        IF k <= period THEN <<values[k], 1>>
        ELSE Mean(SubSeq(values, k - period + 1, k))]

\* calculateSMA: the raw value while fewer than `period` values are
\* available, the mean of the trailing window afterwards
CalculateSMA(values, period) ==
    [k \in 1..Len(values) |->
        IF k < period THEN <<values[k], 1>>
        ELSE Mean(SubSeq(values, k - period + 1, k))]

\* calculateRSI.  gains/losses are kept in units of 1/RsiScale tick; the
\* division by `period` truncates (the source's division rounds to a double).
RsiScale == 10 * 10

RsiValue(avgGain, avgLoss) ==
    IF avgLoss = 0 THEN <<100, 1>>
    ELSE FracMul(<<100, 1>>, Frac(avgGain, avgGain + avgLoss))

RECURSIVE RsiLoop(_, _, _, _, _, _)
RsiLoop(values, period, k, gains, losses, acc) ==
    IF k >= Len(values) THEN acc
    ELSE LET change == At(values, k) - At(values, k - 1)
         IN  IF k <= period
             THEN RsiLoop(values, period, k + 1,
                          IF change >= 0 THEN gains + change * RsiScale ELSE gains,
                          IF change >= 0 THEN losses ELSE losses - change * RsiScale,
                          Append(acc, <<50, 1>>))
             ELSE LET avgGain == (gains * (period - 1) + Max(change, 0) * RsiScale) \div period
                      avgLoss == (losses * (period - 1) + Max(-change, 0) * RsiScale) \div period
                  IN  RsiLoop(values, period, k + 1, avgGain, avgLoss,
                              Append(acc, RsiValue(avgGain, avgLoss)))

RECURSIVE PadFront(_, _)
PadFront(s, n) == IF Len(s) < n THEN PadFront(<<(<<50, 1>>)>> \o s, n) ELSE s

CalculateRSI(values, period) ==
    PadFront(RsiLoop(values, period, 1, 0, 0, <<>>), Len(values))

HighestHighLonger(cs, period, index) ==
    LET start == Max(0, index - period)
        highs == {At(cs, k).high : k \in start..index}
    IN  IF highs = {} THEN NegInfinity
        ELSE CHOOSE h \in highs : \A g \in highs : g <= h

\* highestHigh(candles, period, index)
HighestHigh(cs, period, index) ==
    LET start == Max(0, index - period + 1)
        highs == {At(cs, k).high : k \in start..index}
    IN  IF highs = {} THEN NegInfinity
        ELSE CHOOSE h \in highs : \A g \in highs : g <= h

-----------------------------------------------------------------------------
(* runStrategySimulation *)

Closes(cs) == [k \in 1..Len(cs) |-> cs[k].close]

InsufficientDataOffByOne(cs) == Len(cs) < MinCandles - 1
InsufficientData(cs) == Len(cs) < MinCandles

\* The cagr field.  (Math.pow(base, 1 / years) - 1) * 100 is evaluated where it
\* is exact: NaN for a NaN base, 0 for base 1; otherwise the power is left
\* unevaluated and the record keeps its base and the candle count.
CagrLiteral(v) == [evaluated |-> TRUE, value |-> v, base |-> v, bars |-> 0]
CagrPow(base, bars) ==
    IF base.nan THEN [evaluated |-> TRUE, value |-> NaN, base |-> base, bars |-> bars]
    ELSE IF base = Num(<<1, 1>>)
    THEN [evaluated |-> TRUE, value |-> Zero, base |-> base, bars |-> bars]
    ELSE [evaluated |-> FALSE, value |-> Zero, base |-> base, bars |-> bars]

\* the evaluation returned without simulating
InsufficientEvaluation(id) ==
    [id |-> id, trades |-> <<>>, totalReturnPct |-> Zero,
     cagr |-> CagrLiteral(Zero), maxDrawdown |-> Zero, winRate |-> Zero,
     recommendation |-> InsufficientText, confidence |-> Num(Frac(2, 10))]

\* executeExit(exitIndex), for an open position
ExitReturn(exitIndex) ==
    Frac(At(candles, exitIndex).close - positionEntryPrice, positionEntryPrice)

ExitTrade(exitIndex) ==
    [entryDate |-> At(candles, positionEntryIndex).date,
     exitDate |-> At(candles, exitIndex).date,
     entryPrice |-> ToFixed2(positionEntryPrice),
     exitPrice |-> ToFixed2(At(candles, exitIndex).close),
     returnPct |-> ToFixedUnits(FracMul(<<100, 1>>, ExitReturn(exitIndex)), 2),
     holdingDays |-> exitIndex - positionEntryIndex + 1]

ExitEquityAdditive(exitIndex) ==
    LET exit == At(candles, exitIndex).close
        entry == positionEntryPrice
    IN  IF exit >= entry
        THEN equity + MulRatio(capital * Tick, Frac(exit - entry, entry))
        ELSE equity - MulRatio(capital * Tick, Frac(entry - exit, entry))

\* equity *= 1 + returnPct
ExitEquity(exitIndex) ==
    MulRatio(equity, Frac(At(candles, exitIndex).close, positionEntryPrice))

ExecuteExit(exitIndex) ==
    IF positionEntryIndex = NoPosition
    THEN UNCHANGED <<equity, trades, positionEntryIndex, positionEntryPrice>>
    ELSE /\ equity' = ExitEquity(exitIndex)
         /\ trades' = Append(trades, ExitTrade(exitIndex))
         /\ positionEntryIndex' = NoPosition
         /\ positionEntryPrice' = 0

EnterAt(k) ==
    /\ positionEntryIndex' = k
    /\ positionEntryPrice' = At(candles, k).close
    /\ entriesTaken' = entriesTaken + 1
    /\ UNCHANGED <<equity, trades>>

\* the signals of the three strategies at bar k
CrossoverUpStrict(k) ==
    /\ FracLess(At(sma10, k - 1), At(sma40, k - 1))
    /\ FracLess(At(sma40, k), At(sma10, k))

CrossoverUp(k) ==
    /\ ~FracLess(At(sma40, k - 1), At(sma10, k - 1))
    /\ FracLess(At(sma40, k), At(sma10, k))

CrossoverDown(k) ==
    /\ ~FracLess(At(sma10, k - 1), At(sma40, k - 1))
    /\ FracLess(At(sma10, k), At(sma40, k))

RsiAtOrBelowEntry(k) == ~FracLess(<<RsiEntry, 1>>, At(rsi, k))

RsiBelowEntry(k) == FracLess(At(rsi, k), <<RsiEntry, 1>>)

RsiAboveExit(k) == FracLess(<<RsiExit, 1>>, At(rsi, k))

BreakoutInclusive(k) == At(candles, k).close >= HighestHigh(candles, BreakoutPeriod, k - 1)

Breakout(k) == At(candles, k).close > HighestHigh(candles, BreakoutPeriod, k - 1)

Breakdown(k) == FracLess(<<At(candles, k).close, 1>>, At(sma10, k))

EntrySignal(k) ==
    CASE cfgId = "momentum" -> CrossoverUp(k)
      [] cfgId = "meanReversion" -> RsiBelowEntry(k)
      [] cfgId = "breakout" -> Breakout(k)
      [] OTHER -> FALSE
ExitSignal(k) ==
    CASE cfgId = "momentum" -> CrossoverDown(k)
      [] cfgId = "meanReversion" -> RsiAboveExit(k)
      [] cfgId = "breakout" -> Breakdown(k)
      [] OTHER -> FALSE

CurvePointAfterAction(k) ==
    IF positionEntryIndex # NoPosition /\ ExitSignal(k)
    THEN ExitEquity(k)
    ELSE equity

\* line 243: the value pushed for bar k, before the bar's entry or exit
CurvePoint(k) == equity

\* index at which the position left open by the loop is closed
ForceCloseIndexBeforeLast == Len(candles) - 2
ForceCloseIndex == Len(candles) - 1

\* the summary statistics (lines 287-314)
TotalReturnPct ==
    IF capital = 0 THEN <<0, 1>>      \* NaN || 0
    ELSE FracMul(<<100, 1>>, Frac(equity - capital * Tick, capital * Tick))

\* Math.pow(equity / capital, 1 / holdingPeriodYears): the base of the power,
\* NaN for 0 / 0.  The power itself is not evaluated.
CagrBase == IF capital = 0 THEN NaN ELSE Num(Frac(equity, capital * Tick))

Wins == Cardinality({k \in 1..Len(trades) : trades[k].returnPct > 0})

WinRate ==
    IF Len(trades) > 0 THEN Frac(Wins * 100, Len(trades)) ELSE <<0, 1>>

RecommendationInclusive(totalReturnPct) ==
    IF FracLess(<<12, 1>>, totalReturnPct) THEN OutperformText
    ELSE IF ~FracLess(totalReturnPct, <<0, 1>>) THEN ModerateText
    ELSE UnderperformText

\* lines 306-311
Recommendation(totalReturnPct) ==
    IF FracLess(<<12, 1>>, totalReturnPct) THEN OutperformText
    ELSE IF FracLess(<<0, 1>>, totalReturnPct) THEN ModerateText
    ELSE UnderperformText

ConfidenceStrict(n) ==
    IF n > 6 THEN Frac(82, 100) ELSE IF n > 3 THEN Frac(64, 100) ELSE Frac(42, 100)

\* lines 313-314
Confidence(n) ==
    IF n >= 6 THEN Frac(82, 100) ELSE IF n >= 3 THEN Frac(64, 100) ELSE Frac(42, 100)

ScaleNum(x, k) == IF x.nan THEN NaN ELSE Num(FracMul(<<k, 1>>, <<x.num, x.den>>))

Evaluation ==
    [id |-> cfgId, trades |-> trades,
     totalReturnPct |-> ToFixed2Num(Num(TotalReturnPct)),
     cagr |-> CagrPow(CagrBase, Len(candles)),
     maxDrawdown |-> ToFixed2Num(ScaleNum(CalculateMaxDrawdown(equityCurve), 100)),
     winRate |-> ToFixed2Num(Num(WinRate)),
     recommendation |-> Recommendation(TotalReturnPct),
     confidence |-> ToFixed2Num(Num(Confidence(Len(trades))))]

-----------------------------------------------------------------------------
(* Candle slices given to the simulator.  A slice is a zigzag: from SimBase the
   close rises by `step` for `up` bars, falls by `step` for `down` bars, and
   so on; from bar `flip` on (when flip > 0) the legs are mirrored and the
   step is `step2`; the last close is moved by `spike`.  Prices are whole
   cents, not below the generator's floor of 5.00, dates are strictly
   increasing trading days, and low <= open, close <= high. *)

MaxCandles == 44
MaxLeg == 4
SimBase == 40 * Tick
PriceFloor == 5 * Tick
HighPad == 50 * CentTicks
SimSteps == {10 * CentTicks, 2 * Tick}
SimSpikes == {0, 3 * Tick}
SimFlips == {0, 16}
SimLens == {0, 1, MinCandles - 1, MinCandles, MaxCandles}
Capitals == {0, 1000}

\* trading day k (0-based) as a day number: five days a week
TradingDate(k) == k + 2 * (k \div 5)

\* the closes of the first Len(acc) + ... n bars, built left to right
RECURSIVE ZigzagCloses(_, _, _)
ZigzagCloses(n, sh, acc) ==
    LET k == Len(acc)
        rising == ((k - 1) % (sh.up + sh.down)) < sh.up
        second == sh.flip > 0 /\ k >= sh.flip
        dir == IF second = rising THEN -1 ELSE 1
        bump == IF k = n - 1 THEN sh.spike ELSE 0
        next == acc[k] + dir * (IF second THEN sh.step2 ELSE sh.step) + bump
    IN  IF k >= n THEN acc
        ELSE IF k = 0 THEN ZigzagCloses(n, sh, <<SimBase>>)
        ELSE ZigzagCloses(n, sh, Append(acc, IF next < PriceFloor THEN PriceFloor ELSE next))

ZigzagCandles(n, sh) ==
    LET close == ZigzagCloses(n, sh, <<>>)
    IN  [k \in 1..n |->
            LET o == IF k = 1 THEN SimBase ELSE close[k - 1]
                c == close[k]
            IN  [date |-> TradingDate(k - 1),
                 open |-> o,
                 high |-> (IF o >= c THEN o ELSE c) + HighPad,
                 low |-> (IF o <= c THEN o ELSE c) - HighPad,
                 close |-> c,
                 volume |-> 1000000]]

SimShapes ==
    [step : SimSteps, step2 : SimSteps, up : 1..MaxLeg, down : 1..MaxLeg,
     flip : SimFlips, spike : SimSpikes]

\* Slices written out as the changes of the close from bar to bar, in cents
\* (MinCandles - 1 changes from SimBase).  With the first, the RSI of bar 15
\* is exactly 40; with the second, a position is entered at bar 15 and the RSI
\* of bar 16 is exactly 55, and three round trips follow.  With the third,
\* the close of bar 6 equals the highest high before it, bar 7 breaks out, and
\* the close of bar 16 equals its 10-period average.  With the fourth, the
\* close falls at bar 15 and rises at the last bar, so that the momentum and
\* the mean-reversion strategy hold the same bars.
ScriptedChanges ==
    { <<14, 14, -14, -14, -14, 0, 0, 0, 0, 0, 0, 0, 0, 0,
        0, -10, 200, -300, 500, -700, 900, 0, 0, 0, 0, 0, 0, 0, 0>>,
      <<8, 8, -13, -13, 0, 0, 0, 0, 0, 0, 0, 0, 0, 0,
        -4, 195, 50, -300, 500, -700, 900, 0, 0, 0, 0, 0, 0, 0, 0>>,
      <<0, 0, 0, 0, 0, 50, 100, 0, 0, 0, 0, 0, 0, 0,
        0, 0, 0, -10, 0, 0, 0, 0, 0, 0, 0, 0, 0, 0, 0>>,
      <<0, 0, 0, 0, 0, 0, 0, 0, 0, 0, 0, 0, 0, 0,
        -100, 0, 0, 0, 0, 0, 0, 0, 0, 0, 0, 0, 0, 0, 300>> }

RECURSIVE ScriptedCloses(_, _)
ScriptedCloses(changes, acc) ==
    IF Len(acc) > Len(changes) THEN acc
    ELSE ScriptedCloses(changes,
                        Append(acc, acc[Len(acc)] + changes[Len(acc)] * CentTicks))

ScriptedCandles(changes) ==
    LET close == ScriptedCloses(changes, <<SimBase>>)
    IN  [k \in 1..Len(close) |->
            LET o == IF k = 1 THEN SimBase ELSE close[k - 1]
                c == close[k]
            IN  [date |-> TradingDate(k - 1),
                 open |-> o,
                 high |-> (IF o >= c THEN o ELSE c) + HighPad,
                 low |-> (IF o <= c THEN o ELSE c) - HighPad,
                 close |-> c,
                 volume |-> 1000000]]

SimSlices ==
    {ZigzagCandles(n, sh) : n \in SimLens, sh \in SimShapes}
    \cup {ScriptedCandles(changes) : changes \in ScriptedChanges}

NoEvaluation == InsufficientEvaluation("none")

(* The values of a component's variables while another component runs *)
GenIdle ==
    /\ now = 0
    /\ zone = 0
    /\ genCfg = 1
    /\ genDays = 0
    /\ generated = <<>>

NoCandle == [date |-> 0, open |-> 0, high |-> 0, low |-> 0, close |-> 0, volume |-> 0]

OhlcIdle ==
    /\ ohlcCfg = 1
    /\ previousClose = 0
    /\ pushed = NoCandle
    /\ pushCount = 0

NoResult == NaN

MetricIdle ==
    /\ metricInput = <<>>
    /\ metricResult = NoResult

NoRequest == [symbol |-> "", given |-> FALSE, lookbackDays |-> 0]

NoSnapshot == [returned |-> FALSE]

NoRisk == [called |-> FALSE, value |-> 0]

RiskIdle ==
    /\ riskReturns = <<>>
    /\ riskPassed = <<>>
    /\ riskConfidence = 0
    /\ riskResult = NoRisk

SnapIdle ==
    /\ marketSeries = <<>>
    /\ newsSentiment = <<>>
    /\ request = NoRequest
    /\ snapshot = NoSnapshot
    /\ symbolList = <<>>
    /\ loaded = [series |-> <<>>, sentiment |-> <<>>]

NoAdvice == [returned |-> FALSE, label |-> "", annualReturnPositive |-> FALSE,
             volatile |-> FALSE, recommendations |-> <<>>]

AdviseIdle ==
    /\ advPc = "idle"
    /\ advItems = <<>>
    /\ advRun = 0
    /\ evaluations = <<>>
    /\ advice = NoAdvice

SimIdle ==
    /\ candles = <<>>
    /\ cfgId = "none"
    /\ capital = 0
    /\ pc = "idle"
    /\ i = 0
    /\ positionEntryIndex = NoPosition
    /\ positionEntryPrice = 0
    /\ equity = 0
    /\ trades = <<>>
    /\ equityCurve = <<>>
    /\ sma10 = <<>>
    /\ sma40 = <<>>
    /\ rsi = <<>>
    /\ result = NoEvaluation
    /\ entriesTaken = 0
    /\ openAtLoopEnd = FALSE

SimInit ==
    /\ GenIdle /\ OhlcIdle /\ MetricIdle /\ SnapIdle /\ RiskIdle /\ AdviseIdle
    /\ candles \in SimSlices
    /\ cfgId \in {StrategyIds[k] : k \in 1..Len(StrategyIds)}
    /\ capital \in Capitals
    /\ pc = "call"
    /\ i = 0
    /\ positionEntryIndex = NoPosition
    /\ positionEntryPrice = 0
    /\ equity = 0
    /\ trades = <<>>
    /\ equityCurve = <<>>
    /\ sma10 = <<>>
    /\ sma40 = <<>>
    /\ rsi = <<>>
    /\ result = NoEvaluation
    /\ entriesTaken = 0
    /\ openAtLoopEnd = FALSE

\* lines 194-208: too few candles, no simulation
SimInsufficient ==
    /\ pc = "call"
    /\ InsufficientData(candles)
    /\ result' = InsufficientEvaluation(cfgId)
    /\ pc' = "done"
    /\ UNCHANGED <<candles, cfgId, capital, i, positionEntryIndex,
                   positionEntryPrice, equity, trades, equityCurve, sma10,
                   sma40, rsi, entriesTaken, openAtLoopEnd>>
    /\ UNCHANGED <<genVars, ohlcVars, metricVars, snapVars, riskVars, adviseVars>>

\* lines 210-219: indicators and the initial run state
SimBegin ==
    /\ pc = "call"
    /\ ~InsufficientData(candles)
    /\ sma10' = CalculateSMA(Closes(candles), SmaFast)
    /\ sma40' = CalculateSMA(Closes(candles), SmaSlow)
    /\ rsi' = CalculateRSI(Closes(candles), RsiPeriod)
    /\ trades' = <<>>
    /\ equity' = capital * Tick
    /\ positionEntryIndex' = NoPosition
    /\ positionEntryPrice' = 0
    /\ equityCurve' = <<capital * Tick>>
    /\ i' = 1
    /\ pc' = "loop"
    /\ UNCHANGED <<candles, cfgId, capital, result, entriesTaken, openAtLoopEnd>>
    /\ UNCHANGED <<genVars, ohlcVars, metricVars, snapVars, riskVars, adviseVars>>

\* lines 241-281: one iteration of the bar loop
SimBar ==
    /\ pc = "loop"
    /\ i < Len(candles)
    /\ equityCurve' = Append(equityCurve, CurvePoint(i))
    /\ IF positionEntryIndex = NoPosition /\ EntrySignal(i)
       THEN EnterAt(i)
       ELSE IF positionEntryIndex # NoPosition /\ ExitSignal(i)
       THEN ExecuteExit(i) /\ UNCHANGED entriesTaken
       ELSE UNCHANGED <<equity, trades, positionEntryIndex,
                        positionEntryPrice, entriesTaken>>
    /\ i' = i + 1
    /\ UNCHANGED <<candles, cfgId, capital, pc, sma10, sma40, rsi, result,
                   openAtLoopEnd>>
    /\ UNCHANGED <<genVars, ohlcVars, metricVars, snapVars, riskVars, adviseVars>>

\* lines 283-285: the loop is over; a position still open is closed
SimForceClose ==
    /\ pc = "loop"
    /\ i >= Len(candles)
    /\ ExecuteExit(ForceCloseIndex)
    /\ openAtLoopEnd' = (positionEntryIndex # NoPosition)
    /\ pc' = "stats"
    /\ UNCHANGED <<candles, cfgId, capital, i, equityCurve, sma10, sma40, rsi,
                   result, entriesTaken>>
    /\ UNCHANGED <<genVars, ohlcVars, metricVars, snapVars, riskVars, adviseVars>>

\* lines 287-328: summary statistics and the return value
SimFinish ==
    /\ pc = "stats"
    /\ result' = Evaluation
    /\ pc' = "done"
    /\ UNCHANGED <<candles, cfgId, capital, i, positionEntryIndex,
                   positionEntryPrice, equity, trades, equityCurve, sma10,
                   sma40, rsi, entriesTaken, openAtLoopEnd>>
    /\ UNCHANGED <<genVars, ohlcVars, metricVars, snapVars, riskVars, adviseVars>>

SimNext == SimInsufficient \/ SimBegin \/ SimBar \/ SimForceClose \/ SimFinish

SpecSim == SimInit /\ [][SimNext]_vars

-----------------------------------------------------------------------------
(* Synthetic series generator (src/unnamed/part_000) *)

\* seriesConfig, in its insertion order: volatility in thousandths, beta in
\* hundredths, basePrice in dollars.  A symbol is its sequence of characters.
SeriesConfig ==
    << [symbol |-> "AAPL", chars |-> <<"A", "A", "P", "L">>, beta |-> 118,
        basePrice |-> 187, volatility |-> 18],
       [symbol |-> "MSFT", chars |-> <<"M", "S", "F", "T">>, beta |-> 105,
        basePrice |-> 410, volatility |-> 15],
       [symbol |-> "NVDA", chars |-> <<"N", "V", "D", "A">>, beta |-> 142,
        basePrice |-> 880, volatility |-> 22],
       [symbol |-> "TSLA", chars |-> <<"T", "S", "L", "A">>, beta |-> 192,
        basePrice |-> 198, volatility |-> 32],
       [symbol |-> "AMZN", chars |-> <<"A", "M", "Z", "N">>, beta |-> 126,
        basePrice |-> 178, volatility |-> 20],
       [symbol |-> "JPM", chars |-> <<"J", "P", "M">>, beta |-> 109,
        basePrice |-> 204, volatility |-> 12] >>

\* String.charCodeAt for the upper-case letters
Alphabet ==
    <<"A", "B", "C", "D", "E", "F", "G", "H", "I", "J", "K", "L", "M", "N",
      "O", "P", "Q", "R", "S", "T", "U", "V", "W", "X", "Y", "Z">>
CharCode(c) == 64 + (CHOOSE k \in 1..Len(Alphabet) : Alphabet[k] = c)

(* 32-bit words are pairs <<hi, lo>> of 16-bit halves (TLC's integers are
   32-bit signed, so a word does not fit one integer). *)
Half == 256 * 256
Byte == 16 * 16

Word(n) == <<(n \div Half) % Half, n % Half>>

AddW(a, b) ==
    LET lo == a[2] + b[2]
    IN  <<(a[1] + b[1] + lo \div Half) % Half, lo % Half>>

RECURSIVE Xor16(_, _)
Xor16(a, b) ==
    IF a = 0 THEN b ELSE IF b = 0 THEN a
    ELSE ((a + b) % 2) + 2 * Xor16(a \div 2, b \div 2)

RECURSIVE Or16(_, _)
Or16(a, b) ==
    IF a = 0 THEN b ELSE IF b = 0 THEN a
    ELSE (IF a % 2 = 1 \/ b % 2 = 1 THEN 1 ELSE 0) + 2 * Or16(a \div 2, b \div 2)

XorW(a, b) == <<Xor16(a[1], b[1]), Xor16(a[2], b[2])>>

\* small | w, for a constant below 2^16
OrSmallW(small, w) == <<w[1], Or16(small, w[2])>>

\* w >>> s, for 0 < s < 16
ShrW(w, s) ==
    <<w[1] \div (2 ^ s), (w[2] \div (2 ^ s)) + (w[1] % (2 ^ s)) * (2 ^ (16 - s))>>

\* (x * y) mod 2^16 for 16-bit x, y
MulMod16(x, y) ==
    ((x % Byte) * y + (((x \div Byte) * y) % Byte) * Byte) % Half

\* Math.imul: the low 32 bits of the product
ImulW(a, b) ==
    LET p0 == (a[2] % Byte) * b[2]
        p1 == (a[2] \div Byte) * b[2]
        lolo == AddW(Word(p0), <<(p1 \div Byte) % Half, (p1 % Byte) * Byte>>)
        cross == (MulMod16(a[1], b[2]) + MulMod16(a[2], b[1])) % Half
    IN  AddW(lolo, <<cross, 0>>)

\* 0x6d2b79f5
MulberryIncrement == <<27947, 31221>>

\* mulberry32: the closure's seed after the call
MulberryNext(seed) == AddW(seed, MulberryIncrement)

\* mulberry32: the 32-bit numerator of the value returned, for the seed
\* as already advanced by the call
MulberryOut(seed) ==
    LET t1 == ImulW(XorW(seed, ShrW(seed, 15)), OrSmallW(1, seed))
        t2 == XorW(AddW(t1, ImulW(XorW(t1, ShrW(t1, 7)), OrSmallW(61, t1))), t1)
    IN  XorW(t2, ShrW(t2, 14))

\* stringToSeed: hash = (hash << 5) - hash + charCode, kept to 32 bits, and
\* its absolute value.  The hash is held as a signed integer; for the
\* symbols configured (at most 4 letters) it never leaves [0, 2^31).
RECURSIVE HashLoop(_, _, _)
HashLoop(chars, k, hash) ==
    IF k > Len(chars) THEN hash
    ELSE HashLoop(chars, k + 1, hash * 32 - hash + CharCode(chars[k]))

StringToSeed(chars) == Abs(HashLoop(chars, 1, 0))

\* A draw rng() is kept to its leading 8 bits: the value is draw / DrawScale.
DrawScale == 16 * 16
DrawOf(word) == word[1] \div Byte

(* Calendar.  An instant is a count of hours since 1970-01-01T00:00Z; a time
   zone is a fixed offset in hours.  A date string "YYYY-MM-DD" is the day
   number it names (days since 1970-01-01, a Thursday). *)
LocalDay(instant, tz) == (instant + tz) \div 24

LocalHour(instant, tz) == (instant + tz) % 24

\* new Date(today) followed by setDate(today.getDate() - offset): the same
\* local time of day, `offset` local days earlier
DaysBefore(instant, tz, offset) ==
    (LocalDay(instant, tz) - offset) * 24 + LocalHour(instant, tz) - tz

\* Date.getDay(): the weekday of the local date, 0 = Sunday .. 6 = Saturday
GetDay(instant, tz) == (LocalDay(instant, tz) + 4) % 7

\* date.toISOString().split("T")[0]: the UTC date
IsoDate(instant) == instant \div 24

\* the weekday of a date string
WeekdayOfDate(d) == (d + 4) % 7

IsWeekend(instant, tz) == GetDay(instant, tz) = 0 \/ GetDay(instant, tz) = 6

(* One candle from the previous close (ticks, unrounded) and five draws
   d = <<drift, gap, high, low, volume>>, lines 231-249.  A product by a factor
   is taken in two truncating steps. *)
Scaled(price, n1, d1, n2, d2) == MulRatio(MulRatio(price, <<n1, d1>>), <<n2, d2>>)

\* previousClose * (1 + (draw / DrawScale - pct / 100) * volatility * k / 10)
Perturbed(price, draw, pct, vol, k) ==
    LET n == 100 * draw - pct * DrawScale
    IN  IF n >= 0 THEN price + Scaled(price, n, 100 * DrawScale, vol * k, 10000)
        ELSE price - Scaled(price, -n, 100 * DrawScale, vol * k, 10000)

RawClose(prev, vol, d) == Max(PriceFloor, Perturbed(prev, d[1], 48, vol, 16))

RawOpen(prev, vol, d) == Max(PriceFloor, Perturbed(prev, d[2], 50, vol, 10))

RawHighFlipped(open, close, vol, d) ==
    Min(open, close) - Scaled(Max(open, close), d[3], DrawScale, vol * 9, 10000)

RawHigh(open, close, vol, d) ==
    Max(open, close) + Scaled(Max(open, close), d[3], DrawScale, vol * 9, 10000)

RawLow(open, close, vol, d) ==
    Min(open, close) - Scaled(Min(open, close), d[4], DrawScale, vol * 72, 100000)

\* Math.round(800000 + draw * 1200000) * (1 + volatility * 4), toFixed(0)
Volume(vol, d) ==
    LET base == 800000 + ToFixedUnits(Frac(d[5] * 1200000, DrawScale), 0)
        f == Frac(1000 + 4 * vol, 1000)
    IN  ToFixedUnits(<<base * f[1], f[2]>>, 0)

MakeCandle(date, prev, vol, d) ==
    LET close == RawClose(prev, vol, d)
        open == RawOpen(prev, vol, d)
    IN  [date |-> date,
         open |-> ToFixed2(open),
         high |-> ToFixed2(RawHigh(open, close, vol, d)),
         low |-> ToFixed2(RawLow(open, close, vol, d)),
         close |-> ToFixed2(close),
         volume |-> Volume(vol, d)]

-----------------------------------------------------------------------------
(* generateHistoricalSeries, lines 212-253 *)

RECURSIVE GenLoop(_, _, _, _, _, _, _)
GenLoop(cfg, offset, instant, tz, seed, prev, series) ==
    IF offset < 0 THEN series
    ELSE LET date == DaysBefore(instant, tz, offset)
             s1 == MulberryNext(seed)
             s2 == MulberryNext(s1)
             s3 == MulberryNext(s2)
             s4 == MulberryNext(s3)
             s5 == MulberryNext(s4)
             d == <<DrawOf(MulberryOut(s1)), DrawOf(MulberryOut(s2)),
                    DrawOf(MulberryOut(s3)), DrawOf(MulberryOut(s4)),
                    DrawOf(MulberryOut(s5))>>
         IN  IF IsWeekend(date, tz)
             THEN GenLoop(cfg, offset - 1, instant, tz, seed, prev, series)
             ELSE GenLoop(cfg, offset - 1, instant, tz, s5,
                          RawClose(prev, cfg.volatility, d),
                          Append(series,
                                 MakeCandle(IsoDate(date), prev, cfg.volatility, d)))

\* the series generated for a configuration by a call made at `instant` in
\* time zone `tz`
GenerateHistoricalSeries(cfg, days, instant, tz) ==
    GenLoop(cfg, days - 1, instant, tz, Word(StringToSeed(cfg.chars) + days),
            cfg.basePrice * Tick, <<>>)

(* Two calls of the generator with the same arguments, the clock running. *)
MaxGenDays == 9
MaxHoursAhead == 48
TickHours == 24 \div 2
Monday == 4 * 24            \* 1970-01-05T00:00Z
Zones == {-8, 0, 9}
StartHours == {3, 15}
GenDaysSet == {0, 1, 7, MaxGenDays}

GenInit ==
    /\ SimIdle /\ OhlcIdle /\ MetricIdle /\ SnapIdle /\ RiskIdle /\ AdviseIdle
    /\ now \in {Monday + h : h \in StartHours}
    /\ zone \in Zones
    /\ genCfg \in 1..Len(SeriesConfig)
    /\ genDays \in GenDaysSet
    /\ generated = <<>>

\* time passes
GenTick ==
    /\ now < Monday + MaxHoursAhead
    /\ now' = now + TickHours
    /\ UNCHANGED <<zone, genCfg, genDays, generated>>
    /\ UNCHANGED <<simVars, ohlcVars, metricVars, snapVars, riskVars, adviseVars>>

\* a call generateHistoricalSeries(symbol, config, days)
GenCall ==
    /\ Len(generated) < 2
    /\ generated' = Append(generated,
                           GenerateHistoricalSeries(SeriesConfig[genCfg], genDays, now, zone))
    /\ UNCHANGED <<now, zone, genCfg, genDays>>
    /\ UNCHANGED <<simVars, ohlcVars, metricVars, snapVars, riskVars, adviseVars>>

GenNext == GenTick \/ GenCall

SpecGen == GenInit /\ [][GenNext]_vars

(* The loop body on arbitrary draws: each of the five draws ranges over
   Draws, the values 0 .. DrawScale - 1 standing for [0, 1). *)
MaxPush == 2
Draws == {0, 123, DrawScale - 1}

OhlcInit ==
    /\ SimIdle /\ GenIdle /\ MetricIdle /\ SnapIdle /\ RiskIdle /\ AdviseIdle
    /\ ohlcCfg \in 1..Len(SeriesConfig)
    /\ previousClose = SeriesConfig[ohlcCfg].basePrice * Tick
    /\ pushed = NoCandle
    /\ pushCount = 0

\* lines 231-249 for one trading day
OhlcPush ==
    /\ pushCount < MaxPush
    /\ \E d \in Draws \X Draws \X Draws \X Draws \X Draws :
          /\ pushed' = MakeCandle(TradingDate(pushCount), previousClose,
                                  SeriesConfig[ohlcCfg].volatility, d)
          /\ previousClose' = RawClose(previousClose, SeriesConfig[ohlcCfg].volatility, d)
    /\ pushCount' = pushCount + 1
    /\ UNCHANGED ohlcCfg
    /\ UNCHANGED <<simVars, genVars, metricVars, snapVars, riskVars, adviseVars>>

OhlcNext == OhlcPush

SpecOhlc == OhlcInit /\ [][OhlcNext]_vars

(* The metric functions applied to an argument *)
MaxPath == 4
PathPrices == {50 * Tick, 100 * Tick, 150 * Tick}

RECURSIVE SeqsUpTo(_, _)
SeqsUpTo(S, n) ==
    IF n = 0 THEN {<<>>}
    ELSE LET shorter == SeqsUpTo(S, n - 1)
         IN  shorter \cup {Append(q, x) : q \in {r \in shorter : Len(r) = n - 1}, x \in S}

MetricInit ==
    /\ SimIdle /\ GenIdle /\ OhlcIdle /\ SnapIdle /\ RiskIdle /\ AdviseIdle
    /\ metricInput \in SeqsUpTo(PathPrices, MaxPath)
    /\ metricResult = NoResult

\* a call calculateMaxDrawdown(candles), on candles with the closes given
CallMaxDrawdown ==
    /\ metricResult = NoResult
    /\ metricResult' = CalculateMaxDrawdown(metricInput)
    /\ UNCHANGED metricInput
    /\ UNCHANGED <<simVars, genVars, ohlcVars, snapVars, riskVars, adviseVars>>

MetricNext == CallMaxDrawdown

SpecMetric == MetricInit /\ [][MetricNext]_vars

(* calculateValueAtRisk applied to a list of returns *)
MaxReturns == 5
DefaultConfidence == 95
ReturnValues == {-500, -200, 0, 100, 300}
Confidences == {50, 75, DefaultConfidence, 100}

RiskInit ==
    /\ SimIdle /\ GenIdle /\ OhlcIdle /\ MetricIdle /\ SnapIdle /\ AdviseIdle
    /\ riskReturns \in SeqsUpTo(ReturnValues, MaxReturns)
    /\ riskPassed = riskReturns
    /\ riskConfidence \in Confidences
    /\ riskResult = NoRisk

CallValueAtRisk ==
    /\ ~riskResult.called
    /\ riskResult' = [called |-> TRUE,
                      value |-> CalculateValueAtRisk(riskReturns, riskConfidence)]
    /\ riskReturns' = ReturnsAfterValueAtRisk(riskReturns)
    /\ UNCHANGED <<riskPassed, riskConfidence>>
    /\ UNCHANGED <<simVars, genVars, ohlcVars, metricVars, snapVars, adviseVars>>

RiskNext == CallValueAtRisk

SpecRisk == RiskInit /\ [][RiskNext]_vars

-----------------------------------------------------------------------------
(* The data modules and getAdvisorSnapshot (analytics.ts 331-431) *)

\* newsSentiment as written in the source: scores in hundredths, a headline
\* named by the id of its item
NewsSentiment ==
    << [id |-> "aapl-1", symbol |-> "AAPL", score |-> 72],
       [id |-> "aapl-2", symbol |-> "AAPL", score |-> -34],
       [id |-> "msft-1", symbol |-> "MSFT", score |-> 61],
       [id |-> "nvda-1", symbol |-> "NVDA", score |-> 82],
       [id |-> "nvda-2", symbol |-> "NVDA", score |-> -18],
       [id |-> "tsla-1", symbol |-> "TSLA", score |-> 37],
       [id |-> "tsla-2", symbol |-> "TSLA", score |-> -52],
       [id |-> "amzn-1", symbol |-> "AMZN", score |-> 55],
       [id |-> "jpm-1", symbol |-> "JPM", score |-> 41] >>

ScoreScale == 10 * 10

\* marketSeries: one entry per configured symbol, in the order of seriesConfig
MarketSeries(days, instant, tz) ==
    [k \in 1..Len(SeriesConfig) |->
        [symbol |-> SeriesConfig[k].symbol,
         beta |-> SeriesConfig[k].beta,
         historical |-> GenerateHistoricalSeries(SeriesConfig[k], days, instant, tz)]]

\* Array.prototype.find: the first element with the symbol, or undefined
Undefined == [symbol |-> "undefined", beta |-> 0, historical |-> <<>>]

GetSeriesBySymbol(series, symbol) ==
    IF \E k \in 1..Len(series) : series[k].symbol = symbol
    THEN series[CHOOSE k \in 1..Len(series) :
                    /\ series[k].symbol = symbol
                    /\ \A j \in 1..(k - 1) : series[j].symbol # symbol]
    ELSE Undefined

\* getSeriesBySymbol(symbol) ?? marketSeries[0]
Meta(series, symbol) ==
    IF GetSeriesBySymbol(series, symbol) = Undefined THEN series[1]
    ELSE GetSeriesBySymbol(series, symbol)

\* Array.prototype.slice(start) with one argument: a negative start counts
\* from the end, and -0 is 0
SliceFrom(arr, start) ==
    LET len == Len(arr)
        k == IF start < 0 THEN Max(len + start, 0) ELSE Min(start, len)
    IN  SubSeq(arr, k + 1, len)

\* meta.historical.slice(-lookbackDays)
SnapshotCandles(meta, lookbackDays) == SliceFrom(meta.historical, -lookbackDays)

\* marketSeries after a call.  slice() copies: the receiver keeps its candles
\* (splice(-lookbackDays) would remove from it the candles it returns).
SeriesAfterSplice(series, symbol, lookbackDays) ==
    [k \in 1..Len(series) |->
        IF series[k] = Meta(series, symbol)
        THEN [series[k] EXCEPT !.historical =
                 SubSeq(@, 1, Len(@) - Len(SnapshotCandles(series[k], lookbackDays)))]
        ELSE series[k]]

SeriesAfterSnapshot(series, symbol, lookbackDays) == series

\* the symbol the sentiment items are filtered by
FilterSymbolRequested(symbol, meta) == symbol

FilterSymbol(symbol, meta) == meta.symbol

SentimentItems(table, symbol) ==
    LET Matches(item) == item.symbol = symbol
    IN  SelectSeq(table, Matches)

\* mean(sentimentItems.map(item => item.score)), an exact fraction
SentimentScore(items) ==
    LET m == Mean([k \in 1..Len(items) |-> items[k].score])
    IN  Frac(m[1], m[2] * ScoreScale)

BullishAbove == <<1, 4>>

BearishBelow == <<-1, 4>>

SentimentLabelInclusive(score) ==
    IF ~FracLess(score, BullishAbove) THEN "Bullish"
    ELSE IF ~FracLess(BearishBelow, score) THEN "Bearish"
    ELSE "Neutral"

SentimentLabel(score) ==
    IF FracLess(BullishAbove, score) THEN "Bullish"
    ELSE IF FracLess(score, BearishBelow) THEN "Bearish"
    ELSE "Neutral"

NoCatalystText == "No high conviction catalyst detected."

CatalystFirstStrong(items) ==
    LET Strong(item) == item.score * 2 > ScoreScale \/ item.score * 2 < -ScoreScale
    IN  IF SelectSeq(items, Strong) # <<>> THEN Head(SelectSeq(items, Strong)).id
        ELSE NoCatalystText

CatalystInclusive(items) ==
    LET Positive(item) == item.score * 2 >= ScoreScale
        Negative(item) == item.score * 2 <= -ScoreScale
    IN  IF SelectSeq(items, Positive) # <<>> THEN Head(SelectSeq(items, Positive)).id
        ELSE IF SelectSeq(items, Negative) # <<>> THEN Head(SelectSeq(items, Negative)).id
        ELSE NoCatalystText

\* lines 360-363: find(score > 0.5) ?? find(score < -0.5) ?? the fallback
Catalyst(items) ==
    LET Positive(item) == item.score * 2 > ScoreScale
        Negative(item) == item.score * 2 < -ScoreScale
    IN  IF SelectSeq(items, Positive) # <<>> THEN Head(SelectSeq(items, Positive)).id
        ELSE IF SelectSeq(items, Negative) # <<>> THEN Head(SelectSeq(items, Negative)).id
        ELSE NoCatalystText

\* The snapshot returned: its candles, the metrics that are functions of the
\* candles' closes alone, beta and the sentiment summary.
AdvisorSnapshot(series, table, symbol, lookbackDays) ==
    LET meta == Meta(series, symbol)
        cs == SnapshotCandles(meta, lookbackDays)
        items == SentimentItems(table, FilterSymbol(symbol, meta))
        score == SentimentScore(items)
        IsPositive(item) == item.score > 0
        IsNegative(item) == item.score < 0
    IN  [returned |-> TRUE,
         candles |-> cs,
         maxDrawdown |-> CalculateMaxDrawdown(Closes(cs)),
         beta |-> meta.beta,
         sentiment |-> [score |-> score,
                        label |-> SentimentLabel(score),
                        catalyst |-> Catalyst(items),
                        positive |-> Len(SelectSeq(items, IsPositive)),
                        negative |-> Len(SelectSeq(items, IsNegative)),
                        items |-> items]]

\* listSymbols
ListedSymbols(series) == [k \in 1..Len(series) |-> series[k].symbol]

(* Inputs: the series of a module loaded on a Monday morning (UTC) with a
   short history; the sentiment table of the source, and the tables that
   give the first symbol up to MaxItems items with scores from Scores. *)
MaxSeriesDays == 9
MaxItems == 2
SeriesDays == {4, MaxSeriesDays}
Scores == {-75, -25, 25, 75}
UnknownSymbols == {"GOOG", ""}
Lookbacks == {0, 1, 3, MaxSeriesDays}

\* the headlines of the items written into a table, one per position
ItemIds == <<"item-1", "item-2", "item-3", "item-4">>

ItemsOf(symbol, scores) ==
    [k \in 1..Len(scores) |->
        [id |-> ItemIds[k], symbol |-> symbol, score |-> scores[k]]]

WithItems(table, symbol, scores) ==
    LET Others(item) == item.symbol # symbol
    IN  ItemsOf(symbol, scores) \o SelectSeq(table, Others)

\* scores of exactly 0.5 and -0.5
HalfScores == <<ScoreScale \div 2, -(ScoreScale \div 2)>>

SentimentTables ==
    {NewsSentiment, WithItems(NewsSentiment, SeriesConfig[1].symbol, HalfScores)} \cup
    {WithItems(NewsSentiment, SeriesConfig[1].symbol, q) : q \in SeqsUpTo(Scores, MaxItems)}

RequestSymbols == {SeriesConfig[k].symbol : k \in 1..Len(SeriesConfig)} \cup UnknownSymbols

SnapInit ==
    /\ SimIdle /\ GenIdle /\ OhlcIdle /\ MetricIdle /\ RiskIdle /\ AdviseIdle
    /\ \E days \in SeriesDays : marketSeries = MarketSeries(days, Monday + 3, 0)
    /\ newsSentiment \in SentimentTables
    /\ request = NoRequest
    /\ snapshot = NoSnapshot
    /\ symbolList = <<>>
    /\ loaded = [series |-> marketSeries, sentiment |-> newsSentiment]

\* getAdvisorSnapshot(symbol, { lookbackDays })
GetAdvisorSnapshot ==
    /\ \E symbol \in RequestSymbols, n \in Lookbacks :
          /\ request' = [symbol |-> symbol, given |-> TRUE, lookbackDays |-> n]
          /\ snapshot' = AdvisorSnapshot(marketSeries, newsSentiment, symbol, n)
          /\ marketSeries' = SeriesAfterSnapshot(marketSeries, symbol, n)
    /\ UNCHANGED <<newsSentiment, symbolList, loaded>>
    /\ UNCHANGED <<simVars, genVars, ohlcVars, metricVars, riskVars, adviseVars>>

\* getAdvisorSnapshot(symbol): lookbackDays takes its default
GetAdvisorSnapshotDefault ==
    /\ \E symbol \in RequestSymbols :
          /\ request' = [symbol |-> symbol, given |-> FALSE, lookbackDays |-> DefaultLookback]
          /\ snapshot' = AdvisorSnapshot(marketSeries, newsSentiment, symbol, DefaultLookback)
          /\ marketSeries' = SeriesAfterSnapshot(marketSeries, symbol, DefaultLookback)
    /\ UNCHANGED <<newsSentiment, symbolList, loaded>>
    /\ UNCHANGED <<simVars, genVars, ohlcVars, metricVars, riskVars, adviseVars>>

ListSymbols ==
    /\ symbolList' = ListedSymbols(marketSeries)
    /\ UNCHANGED <<marketSeries, newsSentiment, request, snapshot, loaded>>
    /\ UNCHANGED <<simVars, genVars, ohlcVars, metricVars, riskVars, adviseVars>>

SnapNext == GetAdvisorSnapshot \/ GetAdvisorSnapshotDefault \/ ListSymbols

SpecSnap == SnapInit /\ [][SnapNext]_vars

-----------------------------------------------------------------------------
(* getAdvisorSnapshot from the candle slice on (analytics.ts 338-398): the
   return metrics, the three strategy simulations run one after the other on
   the slice, and the recommendations.  The slice and the sentiment items are
   what lines 336-337 and 349-351 hand over.  Returns are kept in millionths
   and deviations in 1/10000, both cut to the unit. *)

Micro == 1000 * 1000

\* toDailyReturns: current.close / prev.close - 1 for every bar after the first
ToDailyReturns(cs) ==
    [k \in 1..(Len(cs) - 1) |->
        (((cs[k + 1].close - cs[k].close) \div CentTicks) * Micro)
            \div (cs[k].close \div CentTicks)]

\* Math.pow(1 + avgDaily, TRADING_DAYS) - 1 > 0: the power of a positive base
\* exceeds 1 exactly when the base does
AnnualReturnPositive(avgDaily) == FracLess(<<0, 1>>, avgDaily)

\* sum of (value - avg) ** 2 over the values, in 10^-8
SquaredDeviations(values) ==
    LET n == Len(values)
        total == SumSeq(values)
        Deviation(k) == (values[k] * n - total) \div (n * 100)
    IN  SumSeq([k \in 1..n |-> Deviation(k) * Deviation(k)])

\* standardDeviation(returns) * Math.sqrt(TRADING_DAYS) > 0.35, compared as
\* squares: TRADING_DAYS * sum / (n - 1) > 0.35 ** 2; 0 for fewer than 2 values
AnnualVolatilityHigh(values) ==
    /\ Len(values) >= 2
    /\ SquaredDeviations(values) >
          (VolatilityLimit * VolatilityLimit * 100 * 100 * (Len(values) - 1))
              \div TRADING_DAYS

\* x < y for two numbers that are not NaN
NumLess(x, y) == FracLess(<<x.num, x.den>>, <<y.num, y.den>>)

RECURSIVE InsertByReturnFirst(_, _)
InsertByReturnFirst(sorted, e) ==
    IF sorted = <<>> THEN <<e>>
    ELSE IF ~NumLess(e.totalReturnPct, Head(sorted).totalReturnPct)
    THEN <<e>> \o sorted
    ELSE <<Head(sorted)>> \o InsertByReturnFirst(Tail(sorted), e)

\* the stable sort by (a, b) => b.totalReturnPct - a.totalReturnPct: an
\* element goes behind every element that is not smaller
RECURSIVE InsertByReturn(_, _)
InsertByReturn(sorted, e) ==
    IF sorted = <<>> THEN <<e>>
    ELSE IF NumLess(Head(sorted).totalReturnPct, e.totalReturnPct)
    THEN <<e>> \o sorted
    ELSE <<Head(sorted)>> \o InsertByReturn(Tail(sorted), e)

RECURSIVE SortByReturn(_)
SortByReturn(evals) ==
    IF evals = <<>> THEN <<>>
    ELSE InsertByReturn(SortByReturn(SubSeq(evals, 1, Len(evals) - 1)),
                        evals[Len(evals)])

\* the recommendation strings: the fixed part names the string, `id` the
\* strategy and `value` the number written into it
OverweightText(score) ==
    [kind |-> "Bias positioning slightly overweight", id |-> "",
     value |-> Num(<<ToFixedUnits(FracMul(<<100, 1>>, score), 0), 1>>)]

HedgeText == [kind |-> "Elevate hedging and tighten stops", id |-> "", value |-> Zero]

VolatilityText == [kind |-> "Volatility exceeds 35% annualized", id |-> "", value |-> Zero]

BestText(best) ==
    [kind |-> "delivered gross return", id |-> best.id, value |-> best.totalReturnPct]

NeutralText == [kind |-> "Maintain neutral exposure", id |-> "", value |-> Zero]

SentimentAdviceBullishOnly(label, score, annualPositive) ==
    IF label = "Bullish" THEN <<OverweightText(score)>>
    ELSE IF label = "Bearish" THEN <<HedgeText>>
    ELSE <<>>

\* lines 370-380
SentimentAdvice(label, score, annualPositive) ==
    IF label = "Bullish" /\ annualPositive THEN <<OverweightText(score)>>
    ELSE IF label = "Bearish" THEN <<HedgeText>>
    ELSE <<>>

\* lines 381-385
VolatilityAdvice(volatile) == IF volatile THEN <<VolatilityText>> ELSE <<>>

\* lines 386-393
BestStrategyAdvice(evals) ==
    IF evals = <<>> THEN <<>>
    ELSE LET bestStrategy == Head(SortByReturn(evals))
         IN  IF NumLess(Zero, bestStrategy.totalReturnPct)
             THEN <<BestText(bestStrategy)>>
             ELSE <<>>

\* lines 369-398
Recommendations(label, score, annualPositive, volatile, evals) ==
    LET list == SentimentAdvice(label, score, annualPositive)
                  \o VolatilityAdvice(volatile) \o BestStrategyAdvice(evals)
    IN  IF list = <<>> THEN <<NeutralText>> ELSE list

AdviseLegs == {1, MaxLeg}

AdviseShapes == {sh \in SimShapes : sh.up \in AdviseLegs /\ sh.down \in AdviseLegs}

AdviseSlices ==
    {ZigzagCandles(n, sh) : n \in {MinCandles - 1, MaxCandles}, sh \in AdviseShapes}
    \cup {ScriptedCandles(changes) : changes \in ScriptedChanges}

AdviseScores == {<<>>, <<75>>, <<-75>>}

AdviseInit ==
    /\ GenIdle /\ OhlcIdle /\ MetricIdle /\ SnapIdle /\ RiskIdle
    /\ candles \in AdviseSlices
    /\ capital \in Capitals
    /\ advItems \in {ItemsOf(SeriesConfig[1].symbol, q) : q \in AdviseScores}
    /\ advPc = "call"
    /\ advRun = 0
    /\ evaluations = <<>>
    /\ advice = NoAdvice
    /\ cfgId = "none"
    /\ pc = "idle"
    /\ i = 0
    /\ positionEntryIndex = NoPosition
    /\ positionEntryPrice = 0
    /\ equity = 0
    /\ trades = <<>>
    /\ equityCurve = <<>>
    /\ sma10 = <<>>
    /\ sma40 = <<>>
    /\ rsi = <<>>
    /\ result = NoEvaluation
    /\ entriesTaken = 0
    /\ openAtLoopEnd = FALSE

\* lines 338-358: the metrics and the sentiment label; then the first
\* simulation is called (line 365)
AdviseBegin ==
    /\ advPc = "call"
    /\ LET returns == ToDailyReturns(candles)
           score == SentimentScore(advItems)
       IN  advice' = [returned |-> FALSE,
                      label |-> SentimentLabel(score),
                      annualReturnPositive |-> AnnualReturnPositive(Mean(returns)),
                      volatile |-> AnnualVolatilityHigh(returns),
                      recommendations |-> <<>>]
    /\ advRun' = 1
    /\ cfgId' = StrategyIds[1]
    /\ pc' = "call"
    /\ advPc' = "run"
    /\ UNCHANGED <<candles, capital, i, positionEntryIndex, positionEntryPrice,
                   equity, trades, equityCurve, sma10, sma40, rsi, result,
                   entriesTaken, openAtLoopEnd>>
    /\ UNCHANGED <<advItems, evaluations>>
    /\ UNCHANGED <<genVars, ohlcVars, metricVars, snapVars, riskVars>>

\* lines 365-367: a simulation returned, the next strategy is simulated
AdviseNextStrategy ==
    /\ advPc = "run"
    /\ pc = "done"
    /\ advRun < Len(StrategyIds)
    /\ evaluations' = Append(evaluations, result)
    /\ advRun' = advRun + 1
    /\ cfgId' = StrategyIds[advRun + 1]
    /\ pc' = "call"
    /\ i' = 0
    /\ positionEntryIndex' = NoPosition
    /\ positionEntryPrice' = 0
    /\ equity' = 0
    /\ trades' = <<>>
    /\ equityCurve' = <<>>
    /\ sma10' = <<>>
    /\ sma40' = <<>>
    /\ rsi' = <<>>
    /\ result' = NoEvaluation
    /\ entriesTaken' = 0
    /\ openAtLoopEnd' = FALSE
    /\ UNCHANGED <<candles, capital, advPc, advItems, advice>>
    /\ UNCHANGED <<genVars, ohlcVars, metricVars, snapVars, riskVars>>

\* lines 365-398: the last simulation returned; the recommendations
AdviseRecommend ==
    /\ advPc = "run"
    /\ pc = "done"
    /\ advRun = Len(StrategyIds)
    /\ evaluations' = Append(evaluations, result)
    /\ advice' = [advice EXCEPT
                    !.returned = TRUE,
                    !.recommendations =
                        Recommendations(advice.label, SentimentScore(advItems),
                                        advice.annualReturnPositive,
                                        advice.volatile, evaluations')]
    /\ advPc' = "done"
    /\ UNCHANGED <<advItems, advRun>>
    /\ UNCHANGED <<simVars, genVars, ohlcVars, metricVars, snapVars, riskVars>>

AdviseNext ==
    \/ AdviseBegin
    \/ SimInsufficient
    \/ SimBegin
    \/ SimBar
    \/ SimForceClose
    \/ SimFinish
    \/ AdviseNextStrategy
    \/ AdviseRecommend

SpecAdvise == AdviseInit /\ [][AdviseNext]_vars

-----------------------------------------------------------------------------
(* Claims about runStrategySimulation, checked under SpecSim *)

LastTrade == trades[Len(trades)]
LastCandle == candles[Len(candles)]

\* C1: for every strategy id and every slice of fewer than 30 candles (the
\* empty slice included) the call returns, without simulating, an evaluation
\* with no trades, confidence 0.2, totalReturnPct, cagr, maxDrawdown and
\* winRate 0, and the fixed "Insufficient data" recommendation.
C1_InsufficientData ==
    (pc = "done" /\ Len(candles) < 30) =>
        /\ result.id = cfgId
        /\ result.trades = <<>>
        /\ result.confidence = [nan |-> FALSE, num |-> 1, den |-> 5]
        /\ result.totalReturnPct = [nan |-> FALSE, num |-> 0, den |-> 1]
        /\ result.cagr.evaluated
        /\ result.cagr.value = [nan |-> FALSE, num |-> 0, den |-> 1]
        /\ result.maxDrawdown = [nan |-> FALSE, num |-> 0, den |-> 1]
        /\ result.winRate = [nan |-> FALSE, num |-> 0, den |-> 1]
        /\ result.recommendation = "Insufficient data to evaluate strategy."
        /\ equityCurve = <<>>
        /\ entriesTaken = 0

C1_Witness ==
    /\ pc = "done"
    /\ Len(candles) = 29
    /\ cfgId = "breakout"
    /\ result.recommendation = "Insufficient data to evaluate strategy."

\* C2: every trade of the trade log has exitDate strictly after entryDate and
\* holdingDays >= 1 (slices of at least 30 candles with strictly increasing
\* dates; trades closed by a signal and the force-closed trade alike).
C2_ExitAfterEntry ==
    \A k \in 1..Len(trades) :
        /\ trades[k].exitDate > trades[k].entryDate
        /\ trades[k].holdingDays >= 1

\* C3: when the bar loop ends with a position open, exactly one further trade
\* is appended, ending at the last candle's date and close, and the position
\* is flat afterwards; when it ends flat no trade is appended.  So the number
\* of trades equals the number of entries taken and no position is left open.
C3_ForceClose ==
    /\ [][(pc = "loop" /\ pc' = "stats") =>
            /\ positionEntryIndex' = NoPosition
            /\ IF positionEntryIndex # NoPosition
               THEN /\ Len(trades') = Len(trades) + 1
                    /\ SubSeq(trades', 1, Len(trades)) = trades
                    /\ trades'[Len(trades')].exitDate = LastCandle.date
                    /\ trades'[Len(trades')].exitPrice = LastCandle.close
               ELSE trades' = trades]_vars
    /\ [](pc \in {"stats", "done"} =>
            /\ positionEntryIndex = NoPosition
            /\ Len(trades) = entriesTaken)
    /\ [](pc = "done" /\ Len(candles) >= 30 => result.trades = trades)

C3_Witness ==
    /\ pc = "done"
    /\ openAtLoopEnd
    /\ positionEntryIndex = NoPosition
    /\ Len(result.trades) = entriesTaken
    /\ LastTrade.exitDate = LastCandle.date
    /\ LastTrade.holdingDays > 1

-----------------------------------------------------------------------------
(* Claims about generateHistoricalSeries, checked under SpecGen and SpecOhlc *)

IncreasingDates(series) ==
    \A k \in 1..(Len(series) - 1) : series[k].date < series[k + 1].date

NoWeekendDate(series) ==
    \A k \in 1..Len(series) : WeekdayOfDate(series[k].date) \notin {0, 6}

\* C7: whatever the symbol, the day count, the instant of the call and the time
\* zone, a series returned by the generator has strictly increasing date
\* strings and no date string that names a Saturday or a Sunday.
C7_WeekdaysIncreasing ==
    \A c \in 1..Len(generated) :
        IncreasingDates(generated[c]) /\ NoWeekendDate(generated[c])

\* the part of C7 that the code does keep: dates strictly increase
C7_DatesIncrease == \A c \in 1..Len(generated) : IncreasingDates(generated[c])

\* C8: every candle pushed satisfies low <= min(open, close) <= max(open, close)
\* <= high and volume >= 0 on the rounded values stored, for every symbol
\* configuration and every draw.
C8_OhlcOrdered ==
    pushCount > 0 =>
        /\ pushed.low <= Min(pushed.open, pushed.close)
        /\ Max(pushed.open, pushed.close) <= pushed.high
        /\ pushed.volume >= 0

C8_Witness ==
    /\ pushCount = MaxPush
    /\ pushed.open > pushed.close
    /\ pushed.low < pushed.close
    /\ pushed.high > pushed.open
    /\ pushed.volume > 0

\* C9: two calls of the generator with the same symbol, configuration and day
\* count return the same candle sequence.
C9_Deterministic == Len(generated) = 2 => generated[1] = generated[2]

-----------------------------------------------------------------------------
(* Claims about the metric functions, checked under SpecMetric *)

RunningPeak(closes, k) ==
    CHOOSE p \in {closes[j] : j \in 1..k} : \A j \in 1..k : closes[j] <= p

DrawdownAt(closes, k) ==
    <<RunningPeak(closes, k) - closes[k], RunningPeak(closes, k)>>

NonDecreasing(closes) ==
    \A k \in 1..(Len(closes) - 1) : closes[k] <= closes[k + 1]

SameValue(x, y) == ~FracLess(x, y) /\ ~FracLess(y, x)

\* C10: calculateMaxDrawdown returns the maximum over the path of
\* (peak - close) / peak, peak being the running maximum of the closes up to
\* and including the current one; 0 for the empty series and for every
\* non-decreasing path; 0.5 for the closes [100, 50].
C10_MaxDrawdown ==
    metricResult # NoResult =>
        LET r == <<metricResult.num, metricResult.den>>
            n == Len(metricInput)
        IN  /\ ~metricResult.nan
            /\ n = 0 => metricResult = Zero
            /\ n > 0 =>
                 /\ \E k \in 1..n : SameValue(r, DrawdownAt(metricInput, k))
                 /\ \A k \in 1..n : ~FracLess(r, DrawdownAt(metricInput, k))
            /\ NonDecreasing(metricInput) => metricResult = Zero
            /\ metricInput = <<100 * Tick, 50 * Tick>> => metricResult = Num(<<1, 2>>)

C10_Witness ==
    /\ metricInput = <<100 * Tick, 50 * Tick>>
    /\ metricResult = Num(<<1, 2>>)

-----------------------------------------------------------------------------
(* Claims about getAdvisorSnapshot, checked under SpecSnap *)

Configured(symbol) == \E k \in 1..Len(marketSeries) : marketSeries[k].symbol = symbol

FirstSeries == marketSeries[1]

\* the last n elements of a sequence, all of it when n exceeds its length
Trailing(arr, n) == SubSeq(arr, Len(arr) - Min(n, Len(arr)) + 1, Len(arr))

SeriesOfRequest ==
    IF Configured(request.symbol)
    THEN marketSeries[CHOOSE k \in 1..Len(marketSeries) :
                          marketSeries[k].symbol = request.symbol]
    ELSE FirstSeries

\* C4: a call with a symbol that is not configured returns the snapshot of the
\* first configured symbol: its candles, its beta, and the sentiment items of
\* that first symbol (not those of the requested string).
C4_UnknownSymbolFallback ==
    (snapshot.returned /\ ~Configured(request.symbol)) =>
        /\ snapshot = AdvisorSnapshot(marketSeries, newsSentiment,
                                      FirstSeries.symbol, request.lookbackDays)
        /\ snapshot.candles = SliceFrom(FirstSeries.historical, -request.lookbackDays)
        /\ snapshot.beta = FirstSeries.beta
        /\ snapshot.sentiment.items = SentimentItems(newsSentiment, FirstSeries.symbol)

C4_Witness ==
    /\ snapshot.returned
    /\ request.symbol = "GOOG"
    /\ snapshot.candles # <<>>
    /\ snapshot.beta = 118
    /\ Len(snapshot.sentiment.items) = 2

\* C5: the candles of the snapshot are the last min(N, L) candles of the
\* symbol's series of length L, in order, for every lookbackDays N >= 0; N = 0
\* gives no candles.
C5_TrailingCandles ==
    snapshot.returned =>
        snapshot.candles = Trailing(SeriesOfRequest.historical, request.lookbackDays)

\* the part of C5 that the code keeps: N >= 1
C5_TrailingCandlesPositive ==
    (snapshot.returned /\ request.lookbackDays >= 1) =>
        snapshot.candles = Trailing(SeriesOfRequest.historical, request.lookbackDays)

\* C6: the label is Bullish iff the mean score of the symbol's items is
\* > 0.25, Bearish iff it is < -0.25, Neutral otherwise; means of exactly 0.25
\* and -0.25 are Neutral, and a symbol without items has mean 0 and is Neutral.
C6_SentimentLabel ==
    snapshot.returned =>
        LET items == snapshot.sentiment.items
            total == SumSeq([k \in 1..Len(items) |-> items[k].score])
            n == Len(items)
            label == snapshot.sentiment.label
        IN  /\ items = SentimentItems(newsSentiment, SeriesOfRequest.symbol)
            /\ n = 0 => snapshot.sentiment.score = <<0, 1>> /\ label = "Neutral"
            /\ n > 0 => snapshot.sentiment.score = Frac(total, n * 100)
            /\ label = "Bullish" <=> (n > 0 /\ 4 * total > 100 * n)
            /\ label = "Bearish" <=> (n > 0 /\ 4 * total < -100 * n)
            /\ label = "Neutral" <=> (n = 0 \/ (4 * total <= 100 * n /\ 4 * total >= -100 * n))

C6_Witness ==
    /\ snapshot.returned
    /\ snapshot.sentiment.score = <<1, 4>>
    /\ snapshot.sentiment.label = "Neutral"
    /\ Len(snapshot.sentiment.items) = 2

C6_WitnessBearishBoundary ==
    /\ snapshot.returned
    /\ snapshot.sentiment.score = <<-1, 4>>
    /\ snapshot.sentiment.label = "Neutral"

-----------------------------------------------------------------------------
(* Claims about calculateValueAtRisk, checked under SpecRisk *)

CountBelow(values, v) == Cardinality({k \in 1..Len(values) : values[k] < v})

CountUpTo(values, v) == Cardinality({k \in 1..Len(values) : values[k] <= v})

\* v stands at 0-based position `index` of the ascending arrangement of values
StandsAt(values, v, index) ==
    CountBelow(values, v) <= index /\ index < CountUpTo(values, v)

\* C11: calculateValueAtRisk returns the absolute value of the element at
\* index floor((1 - confidence) * n) of the n returns sorted ascending, 0 for
\* an empty list, and leaves the caller's list as it was; the returns
\* [-0.05, -0.02, 0, 0.01, 0.03] at confidence 0.95 give 0.05.
C11_ValueAtRisk ==
    riskResult.called =>
        LET n == Len(riskPassed)
            index == ((100 - riskConfidence) * n) \div 100
        IN  /\ riskReturns = riskPassed
            /\ n = 0 => riskResult.value = 0
            /\ (n > 0 /\ index < n) =>
                  \E k \in 1..n :
                      /\ StandsAt(riskPassed, riskPassed[k], index)
                      /\ riskResult.value = Abs(riskPassed[k])
            /\ (riskPassed = <<-500, -200, 0, 100, 300>> /\ riskConfidence = 95) =>
                  riskResult.value = 500

C11_Witness ==
    /\ riskResult.called
    /\ riskPassed = <<300, -200, 0, -500, 100>>
    /\ riskConfidence = 95
    /\ riskResult.value = 500
    /\ riskReturns = riskPassed

C11_WitnessExample ==
    /\ riskResult.called
    /\ riskPassed = <<-500, -200, 0, 100, 300>>
    /\ riskConfidence = 95
    /\ riskResult.value = 500

-----------------------------------------------------------------------------
(* Further claims about runStrategySimulation, checked under SpecSim *)

\* C12: no statistic has a zero denominator: for every slice and every capital
\* >= 0, capital 0 included, the totalReturnPct, cagr, maxDrawdown and winRate
\* of the evaluation returned are finite numbers (none is NaN).
C12_FiniteStatistics ==
    pc = "done" =>
        /\ ~result.totalReturnPct.nan
        /\ ~result.cagr.value.nan
        /\ ~result.maxDrawdown.nan
        /\ ~result.winRate.nan

\* the part of C12 that the code keeps: a positive capital
C12_FiniteWithCapital ==
    (pc = "done" /\ capital > 0) =>
        /\ ~result.totalReturnPct.nan
        /\ ~result.cagr.value.nan
        /\ ~result.maxDrawdown.nan
        /\ ~result.winRate.nan

Flat == positionEntryIndex = NoPosition

Long == positionEntryIndex # NoPosition

EntryTaken == entriesTaken' = entriesTaken + 1

ExitTaken == Len(trades') = Len(trades) + 1

\* C14: a run starts FLAT and its position is FLAT or LONG (LONG holding the
\* entry bar and its close); no entry is taken at bar 0; on one bar at most
\* one of entry and exit happens, so no trade exits on the bar it entered on;
\* the trade log is in chronological order and each trade is entered strictly
\* after the exit of the trade before it.
C14_OneActionPerBar ==
    /\ (pc = "loop" /\ i = 1) => Flat
    /\ pc \in {"loop", "stats", "done"} =>
          \/ Flat /\ positionEntryPrice = 0
          \/ /\ positionEntryIndex \in 1..(Len(candles) - 1)
             /\ positionEntryPrice = At(candles, positionEntryIndex).close
    /\ \A k \in 1..Len(trades) :
          /\ trades[k].entryDate > candles[1].date
          /\ trades[k].exitDate # trades[k].entryDate
          /\ trades[k].entryDate <= trades[k].exitDate
          /\ k > 1 => trades[k].entryDate > trades[k - 1].exitDate

\* the part of C14 that the code keeps: each step of the run takes an entry
\* only when FLAT and an exit only when LONG, never both, and the trades are
\* in chronological order without overlap
C14_FlatOrLong ==
    /\ []((pc = "loop" /\ i = 1) => Flat)
    /\ [](pc \in {"loop", "stats", "done"} =>
             \/ Flat /\ positionEntryPrice = 0
             \/ /\ positionEntryIndex \in 1..(Len(candles) - 1)
                /\ positionEntryIndex < i
                /\ positionEntryPrice = At(candles, positionEntryIndex).close)
    /\ [][pc = "loop" =>
             /\ EntryTaken \/ entriesTaken' = entriesTaken
             /\ ExitTaken \/ trades' = trades
             /\ EntryTaken => (Flat /\ ~ExitTaken /\ positionEntryIndex' = i /\ i >= 1)
             /\ ExitTaken => (Long /\ ~EntryTaken /\ positionEntryIndex' = NoPosition)
             /\ (~EntryTaken /\ ~ExitTaken) =>
                   UNCHANGED <<positionEntryIndex, positionEntryPrice>>]_vars
    /\ [](\A k \in 1..Len(trades) :
             /\ trades[k].entryDate <= trades[k].exitDate
             /\ trades[k].entryDate > candles[1].date
             /\ k > 1 => trades[k].entryDate > trades[k - 1].exitDate)

\* a step of the bar loop, for bar i
BarStep(id) == pc = "loop" /\ i < Len(candles) /\ cfgId = id

Enters == Flat /\ positionEntryIndex' # NoPosition

Exits == Long /\ positionEntryIndex' = NoPosition

Holds == UNCHANGED <<positionEntryIndex, positionEntryPrice, equity, trades>>

\* x <= y and x < y for fractions
Leq(x, y) == ~FracLess(y, x)

Lt(x, y) == FracLess(x, y)

\* C15: momentum, at each bar i >= 1: a FLAT position becomes LONG exactly when
\* sma10[i-1] <= sma40[i-1] and sma10[i] > sma40[i], entered at the close of
\* bar i; a LONG position is closed at bar i exactly when sma10[i-1] >=
\* sma40[i-1] and sma10[i] < sma40[i]; on every other bar nothing changes.
C15_Momentum ==
    [][BarStep("momentum") =>
          LET up == Leq(sma10[i], sma40[i]) /\ Lt(sma40[i + 1], sma10[i + 1])
              down == Leq(sma40[i], sma10[i]) /\ Lt(sma10[i + 1], sma40[i + 1])
          IN  /\ i >= 1
              /\ Enters <=> (Flat /\ up)
              /\ Enters => /\ positionEntryIndex' = i
                           /\ positionEntryPrice' = candles[i + 1].close
              /\ Exits <=> (Long /\ down)
              /\ Exits => trades'[Len(trades')].exitDate = candles[i + 1].date
              /\ (~Enters /\ ~Exits) => Holds]_vars

C15_Witness ==
    /\ pc = "done"
    /\ cfgId = "momentum"
    /\ Len(trades) >= 2
    /\ trades[1].exitDate < trades[2].entryDate
    /\ trades[2].exitDate < LastCandle.date

\* C16: RSI mean reversion, at each bar i >= 1: a FLAT position becomes LONG
\* exactly when the 14-period RSI at bar i is below 40, a LONG position is
\* closed exactly when it is above 55; an RSI of 40, of 55 or between them
\* changes nothing.
C16_MeanReversion ==
    [][BarStep("meanReversion") =>
          LET r == rsi[i + 1]
          IN  /\ i >= 1
              /\ Enters <=> (Flat /\ Lt(r, <<40, 1>>))
              /\ Enters => /\ positionEntryIndex' = i
                           /\ positionEntryPrice' = candles[i + 1].close
              /\ Exits <=> (Long /\ Lt(<<55, 1>>, r))
              /\ Exits => trades'[Len(trades')].exitDate = candles[i + 1].date
              /\ (Leq(<<40, 1>>, r) /\ Leq(r, <<55, 1>>)) => Holds
              /\ (~Enters /\ ~Exits) => Holds]_vars

C16_Witness ==
    /\ pc = "done"
    /\ cfgId = "meanReversion"
    /\ Len(trades) >= 3
    /\ trades[1].exitDate < trades[2].entryDate
    /\ trades[3].exitDate < LastCandle.date

\* the RSI of the bar just passed was exactly 40 and the position stayed FLAT
C16_WitnessAt40 ==
    /\ pc = "loop"
    /\ cfgId = "meanReversion"
    /\ i = 16
    /\ rsi[i] = <<40, 1>>
    /\ Flat
    /\ entriesTaken = 0

\* the RSI of the bar just passed was exactly 55 and the position stayed LONG
C16_WitnessAt55 ==
    /\ pc = "loop"
    /\ cfgId = "meanReversion"
    /\ i = 17
    /\ rsi[i] = <<55, 1>>
    /\ Long
    /\ positionEntryIndex = 15

\* a LONG position met an RSI between the two thresholds and was kept
C16_WitnessBetween ==
    /\ pc = "loop"
    /\ cfgId = "meanReversion"
    /\ Long
    /\ positionEntryIndex < i - 1
    /\ Lt(<<40, 1>>, rsi[i])
    /\ Lt(rsi[i], <<55, 1>>)

\* C17: volatility breakout, at each bar i >= 1: a FLAT position becomes LONG
\* exactly when close[i] is strictly greater than every high of the bars
\* max(0, i-20) .. i-1 (bar i itself excluded), and a LONG position is closed
\* exactly when close[i] is strictly below the 10-period SMA of bar i.
C17_Breakout ==
    [][BarStep("breakout") =>
          LET close == candles[i + 1].close
              window == (Max(0, i - 20) + 1)..i
              above == \A j \in window : close > candles[j].high
              below == Lt(<<close, 1>>, sma10[i + 1])
          IN  /\ i >= 1
              /\ window # {}
              /\ Enters <=> (Flat /\ above)
              /\ Enters => /\ positionEntryIndex' = i
                           /\ positionEntryPrice' = close
              /\ Exits <=> (Long /\ below)
              /\ Exits => trades'[Len(trades')].exitDate = candles[i + 1].date
              /\ (~Enters /\ ~Exits) => Holds]_vars

\* the close of the bar just passed equalled the highest high before it and
\* the position stayed FLAT
C17_WitnessAtHigh ==
    /\ pc = "loop"
    /\ cfgId = "breakout"
    /\ i = 7
    /\ candles[7].close = candles[6].high
    /\ \A j \in 1..6 : candles[j].high <= candles[7].close
    /\ Flat
    /\ entriesTaken = 0

\* the close of the bar just passed equalled its 10-period average and the
\* position stayed LONG
C17_WitnessAtAverage ==
    /\ pc = "loop"
    /\ cfgId = "breakout"
    /\ i = 17
    /\ sma10[17] = <<candles[17].close, 1>>
    /\ Long
    /\ positionEntryIndex = 7

C17_Witness ==
    /\ pc = "done"
    /\ cfgId = "breakout"
    /\ Len(trades) >= 2
    /\ trades[1].exitDate < trades[2].entryDate
    /\ trades[2].exitDate < LastCandle.date
    /\ trades[2].entryDate > TradingDate(20)

\* capital compounded over the first n trades of a log: multiplied by
\* exitPrice / entryPrice trade after trade (each product cut to a tick)
RECURSIVE Compounded(_, _, _)
Compounded(start, log, n) ==
    IF n = 0 THEN start
    ELSE MulRatio(Compounded(start, log, n - 1),
                  Frac(log[n].exitPrice, log[n].entryPrice))

\* C18: equity starts at the capital, is multiplied by exitClose / entryClose
\* at each exit and left alone by every entry and every bar without an exit;
\* so the final equity is the capital compounded over all trades, the
\* totalReturnPct reported is (equity / capital - 1) * 100 (to two decimals),
\* and a run without trades reports totalReturnPct 0.
C18_EquityCompounds ==
    /\ []((pc = "loop" /\ i = 1) => equity = capital * Tick)
    /\ [][pc = "loop" =>
             /\ ExitTaken =>
                   LET t == trades'[Len(trades')]
                   IN  /\ t.entryPrice = At(candles, positionEntryIndex).close
                       /\ t.exitPrice = At(candles, IF i < Len(candles) THEN i
                                                    ELSE Len(candles) - 1).close
                       /\ equity' = MulRatio(equity, Frac(t.exitPrice, t.entryPrice))
             /\ ~ExitTaken => equity' = equity]_vars
    /\ []((pc \in {"loop", "stats", "done"} /\ Len(candles) >= 30) =>
             equity = Compounded(capital * Tick, trades, Len(trades)))
    /\ []((pc = "done" /\ Len(candles) >= 30 /\ capital > 0) =>
             result.totalReturnPct =
                 ToFixed2Num(Num(FracMul(<<100, 1>>,
                                         Frac(equity - capital * Tick, capital * Tick)))))
    /\ []((pc = "done" /\ result.trades = <<>>) => result.totalReturnPct = Zero)

C18_Witness ==
    /\ pc = "done"
    /\ capital > 0
    /\ Len(trades) >= 3
    /\ equity > capital * Tick
    /\ trades[1].returnPct < 0
    /\ trades[2].returnPct > 0
    /\ ~result.totalReturnPct.nan
    /\ result.totalReturnPct.num > 0

\* number of trades of the log closed strictly before bar k (0-based)
ClosedBefore(k) ==
    Cardinality({n \in 1..Len(trades) : trades[n].exitDate < At(candles, k).date})

\* the equity realized by the trades closed strictly before bar k
RealizedBefore(k) == Compounded(capital * Tick, trades, ClosedBefore(k))

RealizedCurve == [k \in 1..Len(candles) |-> RealizedBefore(k - 1)]

ExitsAtFinalCandle ==
    /\ trades # <<>>
    /\ trades[Len(trades)].exitDate = candles[Len(candles)].date

\* C19: the equity curve has exactly one value per candle; its value for bar i
\* is the equity realized by the trades closed strictly before bar i (the
\* capital for bar 0 and up to the bar of the first exit); an exit at the
\* final candle, the force-close included, is in no value of the curve and
\* not in maxDrawdown.
C19_EquityCurve ==
    /\ pc = "loop" =>
          /\ Len(equityCurve) = i
          /\ \A k \in 1..i : equityCurve[k] = RealizedBefore(k - 1)
    /\ (pc \in {"stats", "done"} /\ Len(candles) >= 30) =>
          /\ Len(equityCurve) = Len(candles)
          /\ equityCurve = RealizedCurve
          /\ equityCurve[1] = capital * Tick
          /\ ExitsAtFinalCandle =>
                equityCurve[Len(candles)] =
                    Compounded(capital * Tick, trades, Len(trades) - 1)
    /\ (pc = "done" /\ Len(candles) >= 30 /\ capital > 0) =>
          result.maxDrawdown =
              ToFixed2Num(ScaleNum(CalculateMaxDrawdown(RealizedCurve), 100))

\* a run with a losing force-close at the final candle after earlier trades:
\* the curve moved, and its last value is not the final equity
C19_Witness ==
    /\ pc = "done"
    /\ capital > 0
    /\ openAtLoopEnd
    /\ Len(trades) >= 2
    /\ ExitsAtFinalCandle
    /\ equity < equityCurve[Len(candles)]
    /\ \E k \in 1..Len(candles) : equityCurve[k] # capital * Tick
    /\ result.maxDrawdown = ToFixed2Num(ScaleNum(CalculateMaxDrawdown(equityCurve), 100))
    /\ result.maxDrawdown # ToFixed2Num(ScaleNum(CalculateMaxDrawdown(Append(equityCurve, equity)), 100))

\* a run whose last bar takes the strategy's own exit at the final candle
C19_WitnessLoopExit ==
    /\ pc = "done"
    /\ capital > 0
    /\ ~openAtLoopEnd
    /\ ExitsAtFinalCandle
    /\ equity # equityCurve[Len(candles)]

\* a confidence in hundredths, as the number returned
Hundredths(h) == Num(Frac(h, 100))

\* C20: on a slice of at least 30 candles the confidence is 0.82 for 6 or
\* more trades, 0.64 for 3 to 5 and 0.42 for 0 to 2; over all inputs it is one
\* of 0.2, 0.42, 0.64 and 0.82, and it is 0.2 exactly when the slice has fewer
\* than 30 candles.
C20_Confidence ==
    pc = "done" =>
        LET n == Len(result.trades)
        IN  /\ Len(candles) >= 30 =>
                 /\ n >= 6 => result.confidence = Hundredths(82)
                 /\ (n >= 3 /\ n <= 5) => result.confidence = Hundredths(64)
                 /\ n <= 2 => result.confidence = Hundredths(42)
            /\ result.confidence \in
                 {Hundredths(20), Hundredths(42), Hundredths(64), Hundredths(82)}
            /\ result.confidence = Hundredths(20) <=> Len(candles) < 30

\* a run that ends with exactly six trades
C20_Witness ==
    /\ pc = "done"
    /\ Len(result.trades) = 6
    /\ result.confidence = Hundredths(82)

C20_WitnessThree ==
    /\ pc = "done"
    /\ Len(result.trades) = 3
    /\ result.confidence = Hundredths(64)

C20_WitnessFive ==
    /\ pc = "done"
    /\ Len(result.trades) = 5
    /\ result.confidence = Hundredths(64)

C20_WitnessTwo ==
    /\ pc = "done"
    /\ Len(candles) >= 30
    /\ Len(result.trades) = 2
    /\ result.confidence = Hundredths(42)

C20_WitnessNone ==
    /\ pc = "done"
    /\ Len(candles) >= 30
    /\ result.trades = <<>>
    /\ result.confidence = Hundredths(42)

C20_WitnessShort ==
    /\ pc = "done"
    /\ Len(candles) = 29
    /\ result.confidence = Hundredths(20)

\* the run's gain in ticks; (equity / capital - 1) * 100 > 12 is
\* 25 * gain > 3 * capital, and with capital 0 the percentage is NaN || 0 = 0
Gain == equity - capital * Tick

ReturnAboveTwelve == capital > 0 /\ 25 * Gain > 3 * capital * Tick

ReturnAboveZero == capital > 0 /\ Gain > 0

\* C21: on a slice of at least 30 candles the recommendation text is chosen by
\* the run's total return percent alone: the Outperformed text when it is
\* > 12, the Moderately profitable text when it is > 0 and <= 12, the
\* Underperformed text when it is <= 0, which includes every run without
\* trades.
C21_Recommendation ==
    (pc = "done" /\ Len(candles) >= 30) =>
        /\ result.recommendation = OutperformText <=> ReturnAboveTwelve
        /\ result.recommendation = ModerateText <=>
               (ReturnAboveZero /\ ~ReturnAboveTwelve)
        /\ result.recommendation = UnderperformText <=> ~ReturnAboveZero
        /\ result.trades = <<>> => result.recommendation = UnderperformText

\* a run without trades, which carries the Underperformed text
C21_Witness ==
    /\ pc = "done"
    /\ Len(candles) >= 30
    /\ capital > 0
    /\ result.trades = <<>>
    /\ result.recommendation = UnderperformText

C21_WitnessOutperform ==
    /\ pc = "done"
    /\ result.recommendation = OutperformText
    /\ FracLess(<<12, 1>>, <<result.totalReturnPct.num, result.totalReturnPct.den>>)

C21_WitnessModerate ==
    /\ pc = "done"
    /\ result.recommendation = ModerateText
    /\ FracLess(<<0, 1>>, <<result.totalReturnPct.num, result.totalReturnPct.den>>)
    /\ FracLess(<<result.totalReturnPct.num, result.totalReturnPct.den>>, <<12, 1>>)

C21_WitnessLoss ==
    /\ pc = "done"
    /\ result.trades # <<>>
    /\ result.recommendation = UnderperformText
    /\ FracLess(<<result.totalReturnPct.num, result.totalReturnPct.den>>, <<0, 1>>)

-----------------------------------------------------------------------------
(* Claims about the recommendations of getAdvisorSnapshot, under SpecAdvise *)

Kinds(list) == {list[k].kind : k \in 1..Len(list)}

\* the place of a recommendation string in the order of lines 370-397
Rank(text) ==
    CASE text.kind \in {OverweightText(<<0, 1>>).kind, HedgeText.kind} -> 1
      [] text.kind = VolatilityText.kind -> 2
      [] text.kind = "delivered gross return" -> 3
      [] OTHER -> 4

\* index of the evaluation with the highest totalReturnPct, the earliest
\* configured one on ties
Best ==
    CHOOSE k \in 1..Len(evaluations) :
        /\ \A j \in 1..Len(evaluations) :
              ~NumLess(evaluations[k].totalReturnPct, evaluations[j].totalReturnPct)
        /\ \A j \in 1..(k - 1) :
              NumLess(evaluations[j].totalReturnPct, evaluations[k].totalReturnPct)

BestIsPositive == NumLess(Zero, evaluations[Best].totalReturnPct)

\* C23: the recommendations list is never empty and holds, in this order: the
\* overweight text iff the label is Bullish and annualReturn > 0, or else the
\* hedging text iff the label is Bearish; the volatility text iff annualized
\* volatility > 0.35; the best-strategy text iff the strategy with the highest
\* totalReturnPct (the earliest configured one on ties) has totalReturnPct
\* > 0; the neutral-exposure text iff none of these fired.
C23_Recommendations ==
    advice.returned =>
        LET list == advice.recommendations
            kinds == Kinds(list)
            overweight == advice.label = "Bullish" /\ advice.annualReturnPositive
            hedge == ~overweight /\ advice.label = "Bearish"
        IN  /\ list # <<>>
            /\ [k \in 1..Len(evaluations) |-> evaluations[k].id] = StrategyIds
            /\ \A j, k \in 1..Len(list) : j < k => Rank(list[j]) < Rank(list[k])
            /\ "Bias positioning slightly overweight" \in kinds <=> overweight
            /\ HedgeText \in {list[k] : k \in 1..Len(list)} <=> hedge
            /\ VolatilityText \in {list[k] : k \in 1..Len(list)} <=> advice.volatile
            /\ "delivered gross return" \in kinds <=> BestIsPositive
            /\ BestIsPositive =>
                  \E k \in 1..Len(list) :
                      /\ list[k].kind = "delivered gross return"
                      /\ list[k].id = StrategyIds[Best]
                      /\ list[k].value = evaluations[Best].totalReturnPct
            /\ NeutralText \in {list[k] : k \in 1..Len(list)} <=>
                  ~(overweight \/ hedge \/ advice.volatile \/ BestIsPositive)

\* all three parts fire: three texts in the order of the code
C23_Witness ==
    /\ advice.returned
    /\ Len(advice.recommendations) = 3
    /\ advice.recommendations[1].kind = "Bias positioning slightly overweight"
    /\ advice.recommendations[2] = VolatilityText
    /\ advice.recommendations[3].kind = "delivered gross return"

\* the best strategy stands in a tie with a later one
C23_WitnessTie ==
    /\ advice.returned
    /\ BestIsPositive
    /\ \E k \in (Best + 1)..Len(evaluations) :
          evaluations[k].totalReturnPct = evaluations[Best].totalReturnPct

C23_WitnessNeutral ==
    /\ advice.returned
    /\ advice.recommendations = <<NeutralText>>
    /\ capital > 0
    /\ Len(candles) >= MinCandles
    /\ \E k \in 1..Len(evaluations) : evaluations[k].trades # <<>>

C23_WitnessBullishFalling ==
    /\ advice.returned
    /\ advice.label = "Bullish"
    /\ ~advice.annualReturnPositive
    /\ "Bias positioning slightly overweight" \notin Kinds(advice.recommendations)

C23_WitnessHedge ==
    /\ advice.returned
    /\ Len(advice.recommendations) = 3
    /\ advice.recommendations[1] = HedgeText
    /\ advice.recommendations[3].id = "breakout"

C23_WitnessCalm ==
    /\ advice.returned
    /\ ~advice.volatile
    /\ Len(candles) >= MinCandles
    /\ BestIsPositive

-----------------------------------------------------------------------------
(* Claims about calculateRSI and calculateSMA, on the indicator arrays of a run
   (SpecSim) *)

\* the running averages of gains and losses at the indices 1 .. n - 1 (the
\* element k of the result is for index k): the sums of the changes so far
\* up to index `period`, smoothed from there on
RECURSIVE Averages(_, _, _)
Averages(values, period, acc) ==
    LET idx == Len(acc) + 1
        change == At(values, idx) - At(values, idx - 1)
        gain == IF change > 0 THEN change * RsiScale ELSE 0
        loss == IF change < 0 THEN -change * RsiScale ELSE 0
        before == IF acc = <<>> THEN <<0, 0>> ELSE acc[Len(acc)]
        next == IF idx <= period
                THEN <<before[1] + gain, before[2] + loss>>
                ELSE <<(before[1] * (period - 1) + gain) \div period,
                       (before[2] * (period - 1) + loss) \div period>>
    IN  IF idx >= Len(values) THEN acc
        ELSE Averages(values, period, Append(acc, next))

\* 100 - 100 / (1 + avgGain / avgLoss), or 100 when avgLoss is 0
Smoothed(avg) ==
    IF avg[2] = 0 THEN <<100, 1>>
    ELSE FracMul(<<100, 1>>, Frac(avg[1], avg[1] + avg[2]))

Placeholder == <<50, 1>>

IndicatorsComputed == pc \in {"loop", "stats", "done"} /\ Len(candles) >= MinCandles

\* C24: calculateRSI returns one value per input value, each within [0, 100];
\* the value is the placeholder 50 for the first `period` bars (indices
\* 0 .. period - 1), and every later bar (index >= period) carries the value
\* of the smoothing formula 100 - 100 / (1 + avgGain / avgLoss), or 100 when
\* avgLoss is 0.
C24_RsiValues ==
    IndicatorsComputed =>
        /\ Len(rsi) = Len(candles)
        /\ \A k \in 1..Len(rsi) :
              ~FracLess(rsi[k], <<0, 1>>) /\ ~FracLess(<<100, 1>>, rsi[k])
        /\ \A idx \in 0..(RsiPeriod - 1) : At(rsi, idx) = Placeholder
        /\ LET avg == Averages(Closes(candles), RsiPeriod, <<>>)
           IN  \A idx \in RsiPeriod..(Len(rsi) - 1) : At(rsi, idx) = Smoothed(avg[idx])

\* the part of C24 that the code keeps: the placeholder stands at the indices
\* 0 .. period, the formula from index period + 1 on
C24_RsiAfterWarmup ==
    IndicatorsComputed =>
        /\ Len(rsi) = Len(candles)
        /\ \A k \in 1..Len(rsi) :
              ~FracLess(rsi[k], <<0, 1>>) /\ ~FracLess(<<100, 1>>, rsi[k])
        /\ \A idx \in 0..RsiPeriod : At(rsi, idx) = Placeholder
        /\ LET avg == Averages(Closes(candles), RsiPeriod, <<>>)
           IN  \A idx \in (RsiPeriod + 1)..(Len(rsi) - 1) :
                   At(rsi, idx) = Smoothed(avg[idx])

\* a run where the formula is not 50 at index period and the values after it
\* lie on both sides of 50
C24_WitnessAfterWarmup ==
    /\ IndicatorsComputed
    /\ At(rsi, RsiPeriod) = Placeholder
    /\ Smoothed(Averages(Closes(candles), RsiPeriod, <<>>)[RsiPeriod]) # Placeholder
    /\ \E idx \in (RsiPeriod + 1)..(Len(rsi) - 1) : FracLess(Placeholder, At(rsi, idx))
    /\ \E idx \in (RsiPeriod + 1)..(Len(rsi) - 1) :
          FracLess(<<0, 1>>, At(rsi, idx)) /\ FracLess(At(rsi, idx), Placeholder)

\* the arithmetic mean of values[idx - p + 1 .. idx] (0-based)
WindowMean(values, p, idx) ==
    Frac(SumSeq([j \in 1..p |-> At(values, idx - p + j)]), p)

\* what calculateSMA(values, p) is to hold at index idx; the arrays are
\* computed before the bar loop and compared when it starts
SmaAt(values, p, idx) ==
    IF idx >= p - 1 THEN WindowMean(values, p, idx) ELSE <<At(values, idx), 1>>

\* C25: calculateSMA(values, p) returns one value per input value; for every
\* index i >= p - 1 it is the arithmetic mean of values[i - p + 1 .. i], for
\* every index i < p - 1 it is values[i] itself.  So the 10- and 40-period
\* averages are equal on bars 0 .. 8, the momentum strategy never enters
\* before bar 9, and on a slice of 30 to 39 candles the 40-period average is
\* the raw close on every bar.
C25_MovingAverage ==
    /\ [][(pc \in {"loop", "stats"}) => UNCHANGED <<candles, sma10, sma40>>]_vars
    /\ []((pc = "loop" /\ i = 1) =>
             LET closes == Closes(candles)
                 n == Len(candles)
             IN  /\ Len(sma10) = n /\ Len(sma40) = n
                 /\ \A idx \in 0..(n - 1) :
                       /\ At(sma10, idx) = SmaAt(closes, 10, idx)
                       /\ At(sma40, idx) = SmaAt(closes, 40, idx)
                 /\ \A idx \in 0..8 : At(sma10, idx) = At(sma40, idx)
                 /\ (n >= 30 /\ n <= 39) =>
                       \A idx \in 0..(n - 1) : At(sma40, idx) = <<At(closes, idx), 1>>)
    /\ [][(BarStep("momentum") /\ Enters) => i >= 9]_vars

\* a momentum run on a slice longer than 40 candles that entered at bar 9:
\* both averages are means at the end and differ from the close
C25_Witness ==
    /\ IndicatorsComputed
    /\ cfgId = "momentum"
    /\ Len(candles) > 40
    /\ At(sma40, Len(candles) - 1) # <<At(candles, Len(candles) - 1).close, 1>>
    /\ At(sma10, 9) # <<At(candles, 9).close, 1>>
    /\ At(sma10, 9) # At(sma40, 9)
    /\ positionEntryIndex = 9

\* a slice of 30 candles on which the 10-period average leaves the close
C25_WitnessShortSlice ==
    /\ IndicatorsComputed
    /\ Len(candles) = 30
    /\ \E idx \in 9..29 : At(sma10, idx) # At(sma40, idx)

-----------------------------------------------------------------------------
(* Further claims about getAdvisorSnapshot and listSymbols, under SpecSnap *)

\* positions in the table of the items of the symbol served
OwnItems == {k \in 1..Len(newsSentiment) :
                newsSentiment[k].symbol = SeriesOfRequest.symbol}

StrongPositive == {k \in OwnItems : 2 * newsSentiment[k].score > 100}

StrongNegative == {k \in OwnItems : 2 * newsSentiment[k].score < -100}

First(S) == CHOOSE k \in S : \A j \in S : k <= j

\* C22: the catalyst is the headline of the first item of the symbol, in
\* table order, with score > 0.5 if there is one; otherwise the headline of
\* the first item with score < -0.5 if there is one; otherwise the fallback
\* string.  A qualifying positive item wins even when a qualifying negative
\* item comes earlier in the table.
C22_Catalyst ==
    snapshot.returned =>
        snapshot.sentiment.catalyst =
            IF StrongPositive # {} THEN newsSentiment[First(StrongPositive)].id
            ELSE IF StrongNegative # {} THEN newsSentiment[First(StrongNegative)].id
            ELSE NoCatalystText

\* a strongly negative item stands before the strongly positive one
C22_Witness ==
    /\ snapshot.returned
    /\ StrongPositive # {}
    /\ StrongNegative # {}
    /\ First(StrongNegative) < First(StrongPositive)
    /\ snapshot.sentiment.catalyst = newsSentiment[First(StrongPositive)].id

C22_WitnessNegative ==
    /\ snapshot.returned
    /\ newsSentiment = NewsSentiment
    /\ request.symbol = "TSLA"
    /\ snapshot.sentiment.catalyst = "tsla-2"

C22_WitnessHalf ==
    /\ snapshot.returned
    /\ \E k \in OwnItems : 2 * newsSentiment[k].score = 100
    /\ \E k \in OwnItems : 2 * newsSentiment[k].score = -100
    /\ snapshot.sentiment.catalyst = NoCatalystText

C22_WitnessNoItems ==
    /\ snapshot.returned
    /\ OwnItems = {}
    /\ snapshot.sentiment.catalyst = NoCatalystText

\* C13: no call of getAdvisorSnapshot or listSymbols, whatever its arguments,
\* changes the market series or the sentiment table; so every snapshot
\* returned is the snapshot of the tables as loaded for the arguments of the
\* call, the same whatever calls came before it.
C13_ReadOnlyData ==
    /\ [][marketSeries' = marketSeries /\ newsSentiment' = newsSentiment]_vars
    /\ [](marketSeries = loaded.series /\ newsSentiment = loaded.sentiment)
    /\ [](snapshot.returned =>
             snapshot = AdvisorSnapshot(loaded.series, loaded.sentiment,
                                        request.symbol, request.lookbackDays))
    /\ [][(snapshot.returned /\ request' = request) => snapshot' = snapshot]_vars

C13_Witness ==
    /\ snapshot.returned
    /\ request.symbol = "MSFT"
    /\ request.lookbackDays = 3
    /\ Len(snapshot.candles) = 3
    /\ symbolList # <<>>
    /\ marketSeries = loaded.series
    /\ Len(marketSeries[2].historical) > 3

====
